---- MODULE Spec2Model ----
(***************************************************************************)
(* The NAD receiver integration: the coordinator of                       *)
(* custom_components/nad/__init__.py (command codec, listener commands,    *)
(* poll cycle, capability probe of the entity platforms).                  *)
(*                                                                         *)
(* Python strings are sequences of one-character strings, so that          *)
(* lower(), startswith() and split() are computed as Python computes them. *)
(***************************************************************************)
EXTENDS Integers, Sequences, FiniteSets, TLC

VARIABLES
    coordinators,         \* the NADReceiverCoordinator instances constructed
    listener_commands,    \* NADReceiverCoordinator._listener_commands (class attribute)
    listeners,            \* DataUpdateCoordinator._listeners, per instance: context -> count
    power_state,          \* self.power_state, per instance
    data,                 \* self.data, per instance (the snapshot)
    last_update_success,  \* DataUpdateCoordinator.last_update_success, per instance
    lastCycle,            \* history: outcome of the instance's most recent poll cycle
    last,                 \* history: the operation that produced the current state
    model,                \* self.model, per instance
    version,              \* self.version, per instance
    device_info,          \* self.device_info, per instance
    sources,              \* self.sources, per instance
    hass_data,            \* hass.data[DOMAIN]: the instances registered for the platforms
    device,               \* what the device answers to the probes of connect
    returned,             \* history: what the most recent connect() returned
    config_type,          \* self.config[CONF_TYPE]
    locking,              \* whether transport.communicate holds a lock of its own
    pc,                   \* per thread: where it is in an exchange, and for whom
    wire,                 \* history: the most recent operation on the port
    options,              \* entry.options: min_volume and max_volume
    result,               \* history: what the most recent call of a platform returned
    attr_available,       \* _attr_available, per entity
    attr_value,           \* _attr_is_on / _attr_native_value, per entity
    attr_state,           \* _attr_state of the media player
    written,              \* the state each entity last wrote with async_write_ha_state
    observers,            \* DataUpdateCoordinator._listeners: the entities, in the order they attached
    failures              \* history: the failed cycles in a row that the most recent cycle ended or extended

\* The poll coordinator, the device descriptor, the transport
coordinatorVars == <<coordinators, listener_commands, listeners, power_state, data,
                     last_update_success, lastCycle, last>>
descriptorVars == <<model, version, device_info, sources, hass_data, device, returned>>
transportVars == <<config_type, locking, pc, wire>>
platformVars == <<options, result, attr_available, attr_value, attr_state, written,
                  observers, failures>>

vars == <<coordinators, listener_commands, listeners, power_state, data,
          last_update_success, lastCycle, last,
          model, version, device_info, sources, hass_data, device, returned,
          config_type, locking, pc, wire,
          options, result, attr_available, attr_value, attr_state, written,
          observers, failures>>

----------------------------------------------------------------------------
(* Bounds *)

\* Observers attached to one coordinator at the same time.
MaxListeners == 2

----------------------------------------------------------------------------
(* Python values *)

\* None.  No string of the model has this text.
None == "None"

\* None where a dict is expected (self.data before the first refresh).
NoneData == [k \in {None} |-> None]

\* {}
EmptyDict == [k \in {} |-> None]

\* bool(x) of a str or None,  bool(d) of a dict or None
Truthy(x) == x # None /\ x # ""
TruthyDict(d) == d # NoneData /\ DOMAIN d # {}

\* The decimal digits
Decimal == <<"0", "1", "2", "3", "4", "5", "6", "7", "8", "9">>

\* str(i) of an int 0..99, as in f"Source{i}.Enabled", and its characters
str(i) ==
    IF i < 10 THEN Decimal[i + 1]
    ELSE Decimal[(i \div 10) + 1] \o Decimal[(i % 10) + 1]
strChars(i) ==
    IF i < 10 THEN <<Decimal[i + 1]>>
    ELSE <<Decimal[(i \div 10) + 1], Decimal[(i % 10) + 1]>>

\* for i in range(1, 13)
NumSources == 12

\* f"Source{i}.Enabled", f"Source{i}.Name"
SourceEnabled(i) == "Source" \o str(i) \o ".Enabled"
SourceName(i) == "Source" \o str(i) \o ".Name"

\* The words of the model, each with its characters
Words ==
    {<<"", <<>>>>,
     <<"?", <<"?">>>>, <<"=", <<"=">>>>, <<"+", <<"+">>>>, <<"-", <<"-">>>>,
     <<"Main.Power",  <<"M","a","i","n",".","P","o","w","e","r">>>>,
     <<"Main.Bass",   <<"M","a","i","n",".","B","a","s","s">>>>,
     <<"Main.Dimmer", <<"M","a","i","n",".","D","i","m","m","e","r">>>>,
     <<"Main.Mute",   <<"M","a","i","n",".","M","u","t","e">>>>,
     <<"Main.Model",  <<"M","a","i","n",".","M","o","d","e","l">>>>,
     <<"Main.Version", <<"M","a","i","n",".","V","e","r","s","i","o","n">>>>,
     <<"On", <<"O","n">>>>, <<"Off", <<"O","f","f">>>>,
     <<"ON", <<"O","N">>>>, <<"on", <<"o","n">>>>, <<"off", <<"o","f","f">>>>,
     <<"Yes", <<"Y","e","s">>>>, <<"YES", <<"Y","E","S">>>>,
     <<"yes", <<"y","e","s">>>>, <<"No", <<"N","o">>>>,
     <<"CD", <<"C","D">>>>,
     <<"a=b", <<"a","=","b">>>>, <<"a", <<"a">>>>, <<"b", <<"b">>>>,
     <<"X", <<"X">>>>,
     <<"5", <<"5">>>>, <<"-5", <<"-","5">>>>, <<"0", <<"0">>>>,
     <<"--5", <<"-","-","5">>>>,
     <<"5.0", <<"5",".","0">>>>, <<"-5.0", <<"-","5",".","0">>>>,
     <<"0.0", <<"0",".","0">>>>}

\* The strings of the model, each with its characters: the words and the
\* source keys
Lexicon ==
    Words
    \cup {<<SourceEnabled(i),
            <<"S","o","u","r","c","e">> \o strChars(i)
                \o <<".","E","n","a","b","l","e","d">>>> : i \in 1..NumSources}
    \cup {<<SourceName(i),
            <<"S","o","u","r","c","e">> \o strChars(i)
                \o <<".","N","a","m","e">>>> : i \in 1..NumSources}

\* The characters of a string, and the string of a sequence of characters
Chars(s) == (CHOOSE p \in Lexicon : p[1] = s)[2]
Str(cs) == (CHOOSE p \in Lexicon : p[2] = cs)[1]

UpperLetters == <<"A","B","C","D","E","F","G","H","I","J","K","L","M",
                  "N","O","P","Q","R","S","T","U","V","W","X","Y","Z">>
LowerLetters == <<"a","b","c","d","e","f","g","h","i","j","k","l","m",
                  "n","o","p","q","r","s","t","u","v","w","x","y","z">>

\* The lower-case letter of each upper-case letter
ToLower ==
    {<<UpperLetters[i], LowerLetters[i]>> : i \in 1..Len(UpperLetters)}

LowerChar(ch) ==
    IF \E p \in ToLower : p[1] = ch
    THEN (CHOOSE p \in ToLower : p[1] = ch)[2]
    ELSE ch

\* str.lower(), on the characters
lower(cs) == [i \in 1..Len(cs) |-> LowerChar(cs[i])]

\* str.startswith(prefix), on the characters
startswith(cs, prefix) ==
    Len(cs) >= Len(prefix) /\ SubSeq(cs, 1, Len(prefix)) = prefix

\* str.split(sep) for a one-character sep, on the characters: the list of
\* the parts
RECURSIVE split(_, _)
split(cs, sep) ==
    IF \A i \in 1..Len(cs) : cs[i] # sep
    THEN <<cs>>
    ELSE LET i == CHOOSE j \in 1..Len(cs) :
                      cs[j] = sep /\ \A h \in 1..(j - 1) : cs[h] # sep
         IN  <<SubSeq(cs, 1, i - 1)>> \o split(SubSeq(cs, i + 1, Len(cs)), sep)

----------------------------------------------------------------------------
(* Keys, operators, states *)

MainPower  == "Main.Power"
MainBass   == "Main.Bass"
MainDimmer == "Main.Dimmer"

\* Keys of the entity descriptions (number.py, switch.py): the contexts the
\* entities attach with and the commands they probe.
EntityKeys == {MainBass, MainDimmer}
Keys == {MainPower} \cup EntityKeys

\* The context of an observer: an entity key, or None (the media player).
Contexts == {None} \cup EntityKeys

\* MediaPlayerState.ON / MediaPlayerState.OFF
ON  == "on"
OFF == "off"

AllCoordinators == {"c1", "c2"}

----------------------------------------------------------------------------
(* The transport (nad_receiver, external) and the command codec *)

\* What receiver.transport.communicate(cmd) does: it returns a str (its
\* characters) or raises.
Returns(msg) == [exc |-> "none", msg |-> msg]
Raises(exc)  == [exc |-> exc, msg |-> <<>>]

\* The device's echo of a key with a value, on the characters
Reply(key, value) == key \o <<"=">> \o value

\* What the device and the line may do with one exchange for `command`, by
\* name:
\*   unsupported         the empty reply
\*   On, Off             the echo of the key with the value On / Off
\*   NoValue             the echo of the key with nothing after "="
\*   mismatch            the echo of another key: the command with its last
\*                       character lost
\*   IOError, UnicodeDecodeError   communicate raises
\*   LowerKey            the echo with the key in lower case and the value ON
\*   EqualsInValue       the echo of the key with the value a=b
\*   LongerKey           the echo of a key the command is a proper prefix of
\*   NoEquals            the key alone
\*   OtherKey            the echo of Main.Mute
\*   Yes, YES, No        the echo of the key with the value Yes / YES / No
\*   Text                the echo of the key with the value CD
communicate(command, behaviour) ==
    LET key == Chars(command) IN
    CASE behaviour = "unsupported"        -> Returns(<<>>)
      [] behaviour = "On"                 -> Returns(Reply(key, Chars("On")))
      [] behaviour = "Off"                -> Returns(Reply(key, Chars("Off")))
      [] behaviour = "NoValue"            -> Returns(Reply(key, <<>>))
      [] behaviour = "mismatch"           ->
             Returns(Reply(SubSeq(key, 1, Len(key) - 1), Chars("On")))
      [] behaviour = "IOError"            -> Raises("IOError")
      [] behaviour = "UnicodeDecodeError" -> Raises("UnicodeDecodeError")
      [] behaviour = "LowerKey"           -> Returns(Reply(lower(key), Chars("ON")))
      [] behaviour = "EqualsInValue"      -> Returns(Reply(key, Chars("a=b")))
      [] behaviour = "LongerKey"          ->
             Returns(Reply(key \o Chars("X"), Chars("On")))
      [] behaviour = "NoEquals"           -> Returns(key)
      [] behaviour = "OtherKey"           ->
             Returns(Reply(Chars("Main.Mute"), Chars("Off")))
      [] behaviour = "Yes"                -> Returns(Reply(key, Chars("Yes")))
      [] behaviour = "YES"                -> Returns(Reply(key, Chars("YES")))
      [] behaviour = "No"                 -> Returns(Reply(key, Chars("No")))
      [] behaviour = "Text"               -> Returns(Reply(key, Chars("CD")))
      [] behaviour = "Five"               -> Returns(Reply(key, Chars("5")))
      [] behaviour = "MinusFive"          -> Returns(Reply(key, Chars("-5")))
      [] behaviour = "Zero"               -> Returns(Reply(key, Chars("0")))
      [] behaviour = "DoubleMinus"        -> Returns(Reply(key, Chars("--5")))

\* The behaviours the poll cycles and the capability probes are run against
Behaviours ==
    {"unsupported", "On", "Off", "NoValue", "mismatch", "IOError",
     "UnicodeDecodeError"}

\* The behaviours the codec is run against
CodecBehaviours ==
    Behaviours \cup {"LowerKey", "EqualsInValue", "LongerKey", "NoEquals", "OtherKey"}

\* cmd = f"{command}{operator}";  if value: cmd = f"{cmd}{value}"
encode(command, operator, value) ==
    IF Truthy(value)
    THEN Chars(command) \o Chars(operator) \o Chars(value)
    ELSE Chars(command) \o Chars(operator)

\* decode with the echo compared to the key as it is written
decode_case_sensitive(command, out) ==
    IF out.exc = "UnicodeDecodeError"
    THEN [exc |-> "none", value |-> None]
    ELSE IF out.exc # "none"
    THEN [exc |-> out.exc, value |-> None]
    ELSE IF out.msg = <<>>
    THEN [exc |-> "CommandNotSupportedError", value |-> None]
    ELSE IF startswith(out.msg, Chars(command) \o <<"=">>)
    THEN [exc |-> "none", value |-> Str(split(out.msg, "=")[2])]
    ELSE [exc |-> "none", value |-> None]

\* decode with the empty reply taken for a reply of another key
decode_empty_as_none(command, out) ==
    IF out.exc = "UnicodeDecodeError"
    THEN [exc |-> "none", value |-> None]
    ELSE IF out.exc # "none"
    THEN [exc |-> out.exc, value |-> None]
    ELSE IF out.msg # <<>> /\ startswith(lower(out.msg), lower(Chars(command)) \o <<"=">>)
    THEN [exc |-> "none", value |-> Str(split(out.msg, "=")[2])]
    ELSE [exc |-> "none", value |-> None]

\* The part of exec_command after the exchange: `out` is what communicate did.
\* The result is what exec_command does: it returns a value (a str or None)
\* or raises.
decode(command, out) ==
    IF out.exc = "UnicodeDecodeError"
    THEN [exc |-> "none", value |-> None]
    ELSE IF out.exc # "none"
    THEN [exc |-> out.exc, value |-> None]
    ELSE IF out.msg = <<>>
    THEN [exc |-> "CommandNotSupportedError", value |-> None]
    ELSE IF startswith(lower(out.msg), lower(Chars(command)) \o <<"=">>)
    THEN [exc |-> "none", value |-> Str(split(out.msg, "=")[2])]
    ELSE [exc |-> "none", value |-> None]

\* One call of exec_command against a behaviour of the device: the call, the
\* behaviour, and what the caller got
exec_command(command, operator, value, behaviour) ==
    [command |-> command, operator |-> operator, value |-> value,
     behaviour |-> behaviour,
     res |-> decode(command, communicate(command, behaviour))]

\* What an exchange sent and what it received, on the characters
Sent(e) == encode(e.command, e.operator, e.value)
Received(e) == communicate(e.command, e.behaviour)

----------------------------------------------------------------------------
(* The poll cycle *)

\* The loop over _listener_commands leaving the cycle at the first query that
\* yields no value
RECURSIVE query_listener_commands_until_none(_, _, _, _)
query_listener_commands_until_none(commands, answer, d, log) ==
    IF commands = <<>>
    THEN [exc |-> "none", data |-> d, log |-> log]
    ELSE LET command == Head(commands) IN
         IF command \in DOMAIN d
         THEN query_listener_commands_until_none(Tail(commands), answer, d, log)
         ELSE LET e == exec_command(command, "?", None, answer[command])
              IN  IF e.res.exc # "none" \/ e.res.value = None
                  THEN [exc |-> "UpdateFailed", data |-> d, log |-> Append(log, e)]
                  ELSE query_listener_commands_until_none(
                           Tail(commands), answer,
                           (command :> e.res.value) @@ d, Append(log, e))

\* The loop over _listener_commands without the check `command not in data`
RECURSIVE query_listener_commands_no_check(_, _, _, _)
query_listener_commands_no_check(commands, answer, d, log) ==
    IF commands = <<>>
    THEN [exc |-> "none", data |-> d, log |-> log]
    ELSE LET command == Head(commands)
             e == exec_command(command, "?", None, answer[command])
         IN  IF e.res.exc # "none"
             THEN [exc |-> e.res.exc, data |-> d, log |-> Append(log, e)]
             ELSE query_listener_commands_no_check(
                      Tail(commands), answer,
                      (command :> e.res.value) @@ d, Append(log, e))

\* for command in self._listener_commands:
\*     if command not in data: data[command] = self.exec_command(command, "?")
\* `answer` gives the device's behaviour for each key in this cycle.
RECURSIVE query_listener_commands(_, _, _, _)
query_listener_commands(commands, answer, d, log) ==
    IF commands = <<>>
    THEN [exc |-> "none", data |-> d, log |-> log]
    ELSE LET command == Head(commands) IN
         IF command \in DOMAIN d
         THEN query_listener_commands(Tail(commands), answer, d, log)
         ELSE LET e == exec_command(command, "?", None, answer[command])
              IN  IF e.res.exc # "none"
                  THEN [exc |-> e.res.exc, data |-> d, log |-> Append(log, e)]
                  ELSE query_listener_commands(
                           Tail(commands), answer,
                           (command :> e.res.value) @@ d, Append(log, e))

\* async_update_data with the subscribed keys queried before Main.Power
async_update_data_keys_first(commands, answer) ==
    LET r == query_listener_commands(commands, answer, EmptyDict, <<>>)
        p == exec_command(MainPower, "?", None, answer[MainPower])
    IN  IF r.exc # "none"
        THEN [exc |-> r.exc, power_state |-> None, data |-> NoneData, log |-> r.log]
        ELSE IF p.res.exc # "none" \/ ~Truthy(p.res.value)
        THEN [exc |-> "UpdateFailed", power_state |-> None,
              data |-> NoneData, log |-> Append(r.log, p)]
        ELSE [exc |-> "none",
              power_state |-> IF lower(Chars(p.res.value)) = Chars("on") THEN ON ELSE OFF,
              data |-> (MainPower :> p.res.value) @@ r.data,
              log |-> Append(r.log, p)]

\* async_update_data without the check `if not power_state`
async_update_data_no_value_check(commands, answer) ==
    LET p == exec_command(MainPower, "?", None, answer[MainPower])
    IN  IF p.res.exc \in {"CommandNotSupportedError", "IOError"}
        THEN [exc |-> "UpdateFailed", power_state |-> None,
              data |-> NoneData, log |-> <<p>>]
        ELSE LET r == query_listener_commands(
                          commands, answer, (MainPower :> p.res.value), <<p>>)
             IN  [exc |-> r.exc,
                  power_state |-> IF p.res.value \in {"On", "ON", "on"} THEN ON ELSE OFF,
                  data |-> IF r.exc = "none" THEN r.data ELSE NoneData,
                  log |-> r.log]

\* NADReceiverCoordinator._async_update_data: the power state it assigns, the
\* dict it returns or the exception it raises, and the exchanges it made.
async_update_data(commands, answer) ==
    LET p == exec_command(MainPower, "?", None, answer[MainPower])
    IN  IF p.res.exc \in {"CommandNotSupportedError", "IOError"}
        THEN [exc |-> "UpdateFailed", power_state |-> None,
              data |-> NoneData, log |-> <<p>>]
        ELSE IF ~Truthy(p.res.value)
        THEN [exc |-> "UpdateFailed", power_state |-> None,
              data |-> NoneData, log |-> <<p>>]
        ELSE LET r == query_listener_commands(
                          commands, answer, (MainPower :> p.res.value), <<p>>)
             IN  [exc |-> r.exc,
                  power_state |-> IF lower(Chars(p.res.value)) = Chars("on") THEN ON ELSE OFF,
                  data |-> IF r.exc = "none" THEN r.data ELSE NoneData,
                  log |-> r.log]

----------------------------------------------------------------------------
(* The coordinator's operations *)

Range(seq) == {seq[i] : i \in 1..Len(seq)}

\* Observers attached to coordinator c
Attached(c) == {x \in Contexts : listeners[c][x] > 0}
NumListeners(c) ==
    LET RECURSIVE Sum(_)
        Sum(S) == IF S = {} THEN 0
                  ELSE LET x == CHOOSE y \in S : TRUE
                       IN  listeners[c][x] + Sum(S \ {x})
    IN  Sum(Contexts)

\* self._listener_commands read through instance c: the attribute is set on
\* the class only (class body: _listener_commands = []) and never on an
\* instance, so every instance reads and appends to the one list.
ListenerCommands(c) == listener_commands

\* What an operation leaves in `last`
Op(name, c, exc, log) == [op |-> name, c |-> c, exc |-> exc, log |-> log]

\* A device that answers every query
NominalBehaviours == {"On"}

\* The lists _listener_commands can hold: entity keys, none twice
CommandLists ==
    {l \in UNION {[1..n -> EntityKeys] : n \in 0..Cardinality(EntityKeys)} :
        \A i, j \in 1..Len(l) : l[i] = l[j] => i = j}

\* Every way one poll cycle over `commands` can go, over the behaviours the
\* device may show for each key
PollCycles(commands, behaviours) ==
    {async_update_data(commands, answer) : answer \in [Keys -> behaviours]}

\* PollCycles of the lists of CommandLists, evaluated once
PollCyclesOf ==
    {<<commands, behaviours, PollCycles(commands, behaviours)>> :
        commands \in CommandLists, behaviours \in {Behaviours, NominalBehaviours}}
PollCyclesFor(commands, behaviours) ==
    IF commands \in CommandLists /\ behaviours \in {Behaviours, NominalBehaviours}
    THEN (CHOOSE p \in PollCyclesOf : p[1] = commands /\ p[2] = behaviours)[3]
    ELSE PollCycles(commands, behaviours)

\* Every way one query exchange for a key can go, evaluated once
QueryOf ==
    {<<command, behaviour, exec_command(command, "?", None, behaviour)>> :
        command \in Keys, behaviour \in Behaviours}
QueryFor(command, behaviour) ==
    (CHOOSE q \in QueryOf : q[1] = command /\ q[2] = behaviour)[3]

----------------------------------------------------------------------------
(* The capability prober: connect and get_sources *)

\* Source slots of a device that deviate from the rest, at most
MaxSpecial == 1

\* What a device does with the two queries of a source slot:
\* <<its behaviour for SourceN.Enabled, its behaviour for SourceN.Name>>
DisabledSlot == <<"No", "Text">>
NoSlot == <<"unsupported", "unsupported">>
SpecialSlots ==
    {<<"Yes", "Text">>, <<"Yes", "unsupported">>, <<"Yes", "mismatch">>,
     <<"YES", "Text">>, <<"unsupported", "unsupported">>, <<"mismatch", "Text">>,
     <<"IOError", "Text">>, <<"UnicodeDecodeError", "Text">>}

\* What a device does with Main.Model? and with Main.Version?
IdentityBehaviours ==
    {"Text", "unsupported", "mismatch", "NoValue", "IOError", "UnicodeDecodeError"}

\* The number of source slots a device has: its slots answer No, the indices
\* beyond them get the empty reply, but for the special ones
SlotCounts == {0, 5, NumSources}

Specials ==
    UNION {[S -> SpecialSlots] :
               S \in {T \in SUBSET (1..NumSources) : Cardinality(T) <= MaxSpecial}}

\* The devices connect is run against
Devices ==
    {[model |-> "Text", version |-> "Text", slots |-> n, special |-> f] :
        n \in SlotCounts, f \in Specials}
    \cup {[model |-> m, version |-> v, slots |-> 5,
           special |-> (1 :> <<"Yes", "Text">>)] :
              m \in IdentityBehaviours, v \in IdentityBehaviours}

\* A device that answers Main.Model and Main.Version and has no source slot
NominalDevice == [model |-> "Text", version |-> "Text", slots |-> 0, special |-> <<>>]

\* The keys connect probes
ProbeKeys ==
    {"Main.Model", "Main.Version"}
        \cup {SourceEnabled(i) : i \in 1..NumSources}
        \cup {SourceName(i) : i \in 1..NumSources}

\* The behaviours the probes are run against
ProbeBehaviours ==
    IdentityBehaviours \cup {s[1] : s \in SpecialSlots} \cup {s[2] : s \in SpecialSlots}
        \cup {DisabledSlot[1], DisabledSlot[2], NoSlot[1], NoSlot[2]}

\* Every way the query exchange of a probe can go, evaluated once
ProbeOf ==
    {<<command, behaviour, exec_command(command, "?", None, behaviour)>> :
        command \in ProbeKeys, behaviour \in ProbeBehaviours}
ProbeFor(command, behaviour) ==
    (CHOOSE q \in ProbeOf : q[1] = command /\ q[2] = behaviour)[3]

SlotOf(dev, i) ==
    IF i \in DOMAIN dev.special THEN dev.special[i]
    ELSE IF i <= dev.slots THEN DisabledSlot
    ELSE NoSlot

\* get_sources with the loop going on after an empty reply
RECURSIVE get_sources_no_break(_, _, _, _)
get_sources_no_break(i, dev, srcs, log) ==
    IF i > NumSources
    THEN [exc |-> "none", sources |-> srcs, log |-> log]
    ELSE LET e == ProbeFor(SourceEnabled(i), SlotOf(dev, i)[1]) IN
         IF e.res.exc \notin {"none", "CommandNotSupportedError"}
         THEN [exc |-> e.res.exc, sources |-> srcs, log |-> Append(log, e)]
         ELSE IF e.res.value # None /\ lower(Chars(e.res.value)) = Chars("yes")
         THEN LET n == ProbeFor(SourceName(i), SlotOf(dev, i)[2]) IN
              IF n.res.exc \notin {"none", "CommandNotSupportedError"}
              THEN [exc |-> n.res.exc, sources |-> srcs, log |-> log \o <<e, n>>]
              ELSE get_sources_no_break(i + 1, dev, (i :> n.res.value) @@ srcs,
                                        log \o <<e, n>>)
         ELSE get_sources_no_break(i + 1, dev, srcs, Append(log, e))

\* get_sources, from index i on: the loop `for i in range(1, 13)` with the
\* sources found and the exchanges made so far.  CommandNotSupportedError
\* from either query breaks the loop; any other exception leaves get_sources.
RECURSIVE get_sources(_, _, _, _)

\* The loop body after the query Source{i}.Name? made exchange n
get_sources_named(i, dev, srcs, log, n) ==
    IF n.res.exc = "CommandNotSupportedError"
    THEN [exc |-> "none", sources |-> srcs, log |-> Append(log, n)]
    ELSE IF n.res.exc # "none"
    THEN [exc |-> n.res.exc, sources |-> srcs, log |-> Append(log, n)]
    ELSE get_sources(i + 1, dev, (i :> n.res.value) @@ srcs, Append(log, n))

\* The loop body after the query Source{i}.Enabled? made exchange e
get_sources_enabled(i, dev, srcs, log, e) ==
    IF e.res.exc = "CommandNotSupportedError"
    THEN [exc |-> "none", sources |-> srcs, log |-> Append(log, e)]
    ELSE IF e.res.exc # "none"
    THEN [exc |-> e.res.exc, sources |-> srcs, log |-> Append(log, e)]
    ELSE IF e.res.value # None /\ lower(Chars(e.res.value)) = Chars("yes")
    THEN get_sources_named(i, dev, srcs, Append(log, e),
                           ProbeFor(SourceName(i), SlotOf(dev, i)[2]))
    ELSE get_sources(i + 1, dev, srcs, Append(log, e))

get_sources(i, dev, srcs, log) ==
    IF i > NumSources
    THEN [exc |-> "none", sources |-> srcs, log |-> log]
    ELSE get_sources_enabled(i, dev, srcs, log,
                             ProbeFor(SourceEnabled(i), SlotOf(dev, i)[1]))

\* DeviceInfo(name=f"NAD {self.model}", model=self.model, manufacturer="NAD",
\*            sw_version=self.version)
DeviceInfo(m, v) ==
    [name |-> "NAD " \o m, model |-> m, manufacturer |-> "NAD", sw_version |-> v]

\* self.sources while the attribute is not set (the class has no `sources`
\* and __init__ does not assign it); 0 is no source index
Unset == (0 :> None)

\* The descriptor fields of a coordinator just constructed
Fresh == [model |-> None, version |-> None, device_info |-> None, sources |-> Unset]

\* The descriptor fields of coordinator c
Self(c) ==
    [model |-> model[c], version |-> version[c],
     device_info |-> device_info[c], sources |-> sources[c]]

\* connect with an empty reply to Main.Version? taken for no value
connect_version_unchecked(self, dev) ==
    IF Truthy(self.model)
    THEN [ret |-> None, exc |-> "none", self |-> self, log |-> <<>>]
    ELSE
    LET m == ProbeFor("Main.Model", dev.model)
        v == ProbeFor("Main.Version", dev.version)
        g == get_sources(1, dev, EmptyDict, <<m, v>>)
        resolved == [model |-> m.res.value, version |-> v.res.value,
                     device_info |-> DeviceInfo(m.res.value, v.res.value),
                     sources |-> g.sources]
    IN  IF m.res.exc = "CommandNotSupportedError"
        THEN [ret |-> "False", exc |-> "none", self |-> self, log |-> <<m>>]
        ELSE IF m.res.exc # "none"
        THEN [ret |-> "raised", exc |-> m.res.exc, self |-> self, log |-> <<m>>]
        ELSE IF g.exc # "none"
        THEN [ret |-> "raised", exc |-> g.exc,
              self |-> [resolved EXCEPT !.sources = self.sources], log |-> g.log]
        ELSE [ret |-> "True", exc |-> "none", self |-> resolved, log |-> g.log]

\* connect after get_sources: g is what get_sources did, described the fields
\* assigned before it
connect_enumerated(described, g) ==
    IF g.exc # "none"
    THEN [ret |-> "raised", exc |-> g.exc, self |-> described, log |-> g.log]
    ELSE [ret |-> "True", exc |-> "none",
          self |-> [described EXCEPT !.sources = g.sources], log |-> g.log]

\* connect after the identity queries: m and v are the exchanges of
\* Main.Model? and Main.Version?, the second made only when the first returned
connect_queried(self, dev, m, v) ==
    IF m.res.exc = "CommandNotSupportedError"
    THEN [ret |-> "False", exc |-> "none", self |-> self, log |-> <<m>>]
    ELSE IF m.res.exc # "none"
    THEN [ret |-> "raised", exc |-> m.res.exc, self |-> self, log |-> <<m>>]
    ELSE IF v.res.exc = "CommandNotSupportedError"
    THEN [ret |-> "False", exc |-> "none",
          self |-> [self EXCEPT !.model = m.res.value], log |-> <<m, v>>]
    ELSE IF v.res.exc # "none"
    THEN [ret |-> "raised", exc |-> v.res.exc,
          self |-> [self EXCEPT !.model = m.res.value], log |-> <<m, v>>]
    ELSE connect_enumerated(
             [self EXCEPT !.model = m.res.value,
                          !.version = v.res.value,
                          !.device_info = DeviceInfo(m.res.value, v.res.value)],
             get_sources(1, dev, EmptyDict, <<m, v>>))

\* NADReceiverCoordinator.connect on a coordinator with the descriptor fields
\* `self`, against the device `dev`: what it returns ("True", "False", None
\* when it falls off its end, "raised"), the exception it raises, the fields
\* it leaves and the exchanges it made.
connect_call(self, dev) ==
    IF Truthy(self.model)
    THEN [ret |-> None, exc |-> "none", self |-> self, log |-> <<>>]
    ELSE connect_queried(self, dev, ProbeFor("Main.Model", dev.model),
                         ProbeFor("Main.Version", dev.version))

\* The fields connect leaves on coordinator c
SetSelf(c, self) ==
    /\ model' = [model EXCEPT ![c] = self.model]
    /\ version' = [version EXCEPT ![c] = self.version]
    /\ device_info' = [device_info EXCEPT ![c] = self.device_info]
    /\ sources' = [sources EXCEPT ![c] = self.sources]

\* A call of connect() on a coordinator already constructed
connect(c) ==
    \E r \in {connect_call(Self(c), device)} :
    /\ SetSelf(c, r.self)
    /\ returned' = r.ret
    /\ last' = Op("connect", c, r.exc, r.log)
    /\ UNCHANGED <<coordinators, listener_commands, listeners, power_state, data,
                   last_update_success, lastCycle, hass_data, device>>
    /\ UNCHANGED <<transportVars, platformVars>>

\* async_setup_entry: it constructs the coordinator, calls connect, raises
\* ConfigEntryNotReady when connect returned a false value, and else registers
\* the coordinator in hass.data for the platforms.
async_setup_entry(c) ==
    \E r \in {connect_call(Fresh, device)} :
    /\ c \notin coordinators
    /\ coordinators' = coordinators \cup {c}
    /\ SetSelf(c, r.self)
    /\ returned' = r.ret
    /\ hass_data' = IF r.ret = "True" THEN hass_data \cup {c} ELSE hass_data
    /\ last' = Op("async_setup_entry", c,
                  IF r.ret \in {"False", None} THEN "ConfigEntryNotReady" ELSE r.exc,
                  r.log)
    /\ UNCHANGED <<listener_commands, listeners, power_state, data,
                   last_update_success, lastCycle, device>>
    /\ UNCHANGED <<transportVars, platformVars>>

\* The descriptor of the coordinators constructed, after async_setup_entry
\* against the nominal device
InitRegistered ==
    /\ device = NominalDevice
    /\ model = [c \in AllCoordinators |-> IF c \in coordinators THEN "CD" ELSE None]
    /\ version = [c \in AllCoordinators |-> IF c \in coordinators THEN "CD" ELSE None]
    /\ device_info = [c \in AllCoordinators |->
                         IF c \in coordinators THEN DeviceInfo("CD", "CD") ELSE None]
    /\ sources = [c \in AllCoordinators |->
                     IF c \in coordinators THEN EmptyDict ELSE Unset]
    /\ hass_data = coordinators
    /\ returned = "True"

----------------------------------------------------------------------------
(* The transport: the threads that use the port *)

\* The event loop runs the poll cycle, connect and the commands of the number,
\* select and switch entities, each through exec_command; the executor's
\* worker threads run the media player's commands (turn_on, volume_up, ...),
\* which call the receiver directly.
Workers == {"worker1", "worker2"}
Threads == {"loop"} \cup Workers

\* The callers of exec_command
Callers == {"poll", "connect", "entity"}

Idle == [at |-> "idle", by |-> "none"]
NoOperation == [op |-> "none", t |-> "none"]

\* No exchange under way
InitIdle ==
    /\ pc = [t \in Threads |-> Idle]
    /\ wire = NoOperation

\* A serial connection, idle
InitTransport ==
    /\ config_type = "serial"
    /\ locking = TRUE
    /\ InitIdle

\* The exchanges under way, but those of thread t
InFlight(t) == {u \in Threads \ {t} : pc[u].at = "sent"}

\* transport.communicate of the nad_receiver library may serialise its callers
\* with a lock of its own, held from the send to the receive
MaySend(t) == locking => InFlight(t) = {}

\* exec_command: if self.config[CONF_TYPE] == CONF_TYPE_SERIAL:
\*                   self.receiver.transport.ser.reset_input_buffer()
reset_input_buffer(by) ==
    /\ pc["loop"] = Idle
    /\ config_type = "serial"
    /\ pc' = [pc EXCEPT !["loop"] = [at |-> "flushed", by |-> by]]
    /\ wire' = [op |-> "flush", t |-> "loop"]
    /\ UNCHANGED <<config_type, locking>>
    /\ UNCHANGED <<coordinatorVars, descriptorVars, platformVars>>

\* exec_command: msg = self.receiver.transport.communicate(cmd), the send
communicate_send(by) ==
    /\ \/ config_type = "serial" /\ pc["loop"] = [at |-> "flushed", by |-> by]
       \/ config_type # "serial" /\ pc["loop"] = Idle
    /\ MaySend("loop")
    /\ pc' = [pc EXCEPT !["loop"] = [at |-> "sent", by |-> by]]
    /\ wire' = [op |-> "send", t |-> "loop"]
    /\ UNCHANGED <<config_type, locking>>
    /\ UNCHANGED <<coordinatorVars, descriptorVars, platformVars>>

\* NAD.turn_on, turn_off, volume_up, ...: self.coordinator.receiver.main_power(
\* "=", "On") and the like, the send
media_player_send(t) ==
    /\ pc[t] = Idle
    /\ MaySend(t)
    /\ pc' = [pc EXCEPT ![t] = [at |-> "sent", by |-> "media_player"]]
    /\ wire' = [op |-> "send", t |-> t]
    /\ UNCHANGED <<config_type, locking>>
    /\ UNCHANGED <<coordinatorVars, descriptorVars, platformVars>>

\* The reply of an exchange arrives: communicate returns
communicate_receive(t) ==
    /\ pc[t].at = "sent"
    /\ pc' = [pc EXCEPT ![t] = Idle]
    /\ wire' = [op |-> "receive", t |-> t]
    /\ UNCHANGED <<config_type, locking>>
    /\ UNCHANGED <<coordinatorVars, descriptorVars, platformVars>>

----------------------------------------------------------------------------
(* The options flow and the volume conversion of the media player *)

\* Denominators of the volume levels set_volume_level is called with
MaxDenominator == 4

\* CONF_DEFAULT_MIN_VOLUME, CONF_DEFAULT_MAX_VOLUME
CONF_DEFAULT_MIN_VOLUME == -92
CONF_DEFAULT_MAX_VOLUME == -20

\* vol.Range(min=-92, max=20) of the options schema
RangeMin == -92
RangeMax == 20

\* abs(x) of an int
abs(x) == IF x < 0 THEN -x ELSE x

\* A Python float that is the quotient of two ints, kept as the pair
\* <<numerator, denominator>> with a positive denominator.  The rounding of
\* the binary representation is not modelled.
LessEq(x, y) == x[1] * y[2] <= y[1] * x[2]
Distance(x, y) == <<abs(x[1] * y[2] - y[1] * x[2]), x[2] * y[2]>>

\* round(x) of Python 3: to the nearest int, a tie to the even one
round(x) ==
    LET floor == x[1] \div x[2]
        twice == 2 * (x[1] % x[2])
    IN  IF twice < x[2] THEN floor
        ELSE IF twice > x[2] THEN floor + 1
        ELSE IF floor % 2 = 0 THEN floor ELSE floor + 1

\* int(x): towards zero
int(x) == IF x[1] >= 0 THEN x[1] \div x[2] ELSE -((-x[1]) \div x[2])

\* What a call of the media player returned or raised
Returned(value) == [exc |-> "none", value |-> value]
Raised(exc) == [exc |-> exc, value |-> <<0, 1>>]

\* calc_volume without abs() on the numerator
calc_volume_signed(self, decibel) ==
    IF self.min_volume = self.max_volume
    THEN Raised("ZeroDivisionError")
    ELSE Returned(<<self.min_volume - decibel, abs(self.min_volume - self.max_volume)>>)

\* NAD.calc_volume(decibel)
calc_volume(self, decibel) ==
    IF self.min_volume = self.max_volume
    THEN Raised("ZeroDivisionError")
    ELSE Returned(<<abs(self.min_volume - decibel),
                    abs(self.min_volume - self.max_volume)>>)

\* calc_db with int() in the place of round()
calc_db_truncating(self, volume) ==
    Returned(<<self.min_volume
                 + int(<<abs(self.min_volume - self.max_volume) * volume[1], volume[2]>>),
               1>>)

\* NAD.calc_db(volume)
calc_db(self, volume) ==
    Returned(<<self.min_volume
                 + round(<<abs(self.min_volume - self.max_volume) * volume[1], volume[2]>>),
               1>>)

\* The values the options form is submitted with: the ends of the schema's
\* range, their neighbours and the default maximum
VolumeInputs ==
    {RangeMin - 1, RangeMin, RangeMin + 1, CONF_DEFAULT_MAX_VOLUME,
     RangeMax, RangeMax + 1}

\* The decibel values a reply can carry and the levels set_volume_level is
\* called with
Decibels == RangeMin..RangeMax
Levels == {x \in (0..MaxDenominator) \X (1..MaxDenominator) : x[1] <= x[2]}

\* What a call left in `result`
Call(op, decibel, volume, r) ==
    [op |-> op, decibel |-> decibel, volume |-> volume, exc |-> r.exc, value |-> r.value]

\* NADReceiverOptionsFlowHandler.async_step_init(user_input): the schema
\* coerces each value to an int and checks it against the range; the entry's
\* options become the input.
async_step_init(min_volume, max_volume) ==
    /\ IF /\ min_volume \in RangeMin..RangeMax
          /\ max_volume \in RangeMin..RangeMax
       THEN /\ options' = [min_volume |-> min_volume, max_volume |-> max_volume]
            /\ result' = Call("async_step_init", min_volume, <<max_volume, 1>>,
                              Returned(<<0, 1>>))
       ELSE /\ options' = options
            /\ result' = Call("async_step_init", min_volume, <<max_volume, 1>>,
                              Raised("Invalid"))
    /\ UNCHANGED <<attr_available, attr_value, attr_state, written, observers, failures>>
    /\ UNCHANGED <<coordinatorVars, descriptorVars, transportVars>>

\* calc_volume called by the media player with the bounds it read from the
\* options
call_calc_volume(decibel) ==
    /\ result' = Call("calc_volume", decibel, <<0, 1>>, calc_volume(options, decibel))
    /\ UNCHANGED <<options, attr_available, attr_value, attr_state, written,
                   observers, failures>>
    /\ UNCHANGED <<coordinatorVars, descriptorVars, transportVars>>

\* calc_db called by set_volume_level
call_calc_db(volume) ==
    /\ result' = Call("calc_db", 0, volume, calc_db(options, volume))
    /\ UNCHANGED <<options, attr_available, attr_value, attr_state, written,
                   observers, failures>>
    /\ UNCHANGED <<coordinatorVars, descriptorVars, transportVars>>

\* The options a config flow creates the entry with
DefaultOptions ==
    [min_volume |-> CONF_DEFAULT_MIN_VOLUME, max_volume |-> CONF_DEFAULT_MAX_VOLUME]

NoCall == Call("none", 0, <<0, 1>>, Returned(<<0, 1>>))

----------------------------------------------------------------------------
(* The entities of the platforms *)

\* The media player entity, among the entities named by their keys
MediaPlayer == "media_player"
Entities == EntityKeys \cup {MediaPlayer}

\* The options of a new entry, and the entities as their classes declare
\* them: _attr_available = False, no value, no state written
InitPlatform ==
    /\ options = DefaultOptions
    /\ result = NoCall
    /\ attr_available = [k \in EntityKeys |-> FALSE]
    /\ attr_value = [k \in EntityKeys |-> None]
    /\ attr_state = None
    /\ written = [k \in Entities |-> "none"]
    /\ observers = <<>>
    /\ failures = 0

Init ==
    /\ coordinators = {"c1"}
    /\ listener_commands = <<>>
    /\ listeners = [c \in AllCoordinators |-> [x \in Contexts |-> 0]]
    /\ power_state = [c \in AllCoordinators |-> None]
    /\ data = [c \in AllCoordinators |-> NoneData]
    /\ last_update_success = [c \in AllCoordinators |-> TRUE]
    /\ lastCycle = [c \in AllCoordinators |-> "none"]
    /\ last = Op("init", "c1", "none", <<>>)
    /\ InitRegistered
    /\ InitTransport
    /\ InitPlatform

\* add_listener_command without the check `command not in`
add_listener_command_always(commands, command) == Append(commands, command)

\* add_listener_command(command)
add_listener_command(commands, command) ==
    IF command \notin Range(commands) THEN Append(commands, command) ELSE commands

\* async_add_listener(update_callback, context)
async_add_listener(c, context) ==
    /\ NumListeners(c) < MaxListeners
    /\ listeners' = [listeners EXCEPT ![c][context] = @ + 1]
    /\ listener_commands' =
           IF Truthy(context)
           THEN add_listener_command(ListenerCommands(c), context)
           ELSE listener_commands
    /\ last' = Op("async_add_listener", c, "none", <<>>)
    /\ UNCHANGED <<coordinators, power_state, data, last_update_success, lastCycle>>
    /\ UNCHANGED <<descriptorVars, transportVars, platformVars>>

\* add_listener_command(command) called with any key, Main.Power included
add_listener_command_call(c, command) ==
    /\ listener_commands' = add_listener_command(ListenerCommands(c), command)
    /\ last' = Op("add_listener_command", c, "none", <<>>)
    /\ UNCHANGED <<coordinators, listeners, power_state, data,
                   last_update_success, lastCycle>>
    /\ UNCHANGED <<descriptorVars, transportVars, platformVars>>

\* remove_listener(), the callable async_add_listener returned
remove_listener(c, context) ==
    /\ listeners[c][context] > 0
    /\ listeners' = [listeners EXCEPT ![c][context] = @ - 1]
    /\ last' = Op("remove_listener", c, "none", <<>>)
    /\ UNCHANGED <<coordinators, listener_commands, power_state, data,
                   last_update_success, lastCycle>>
    /\ UNCHANGED <<descriptorVars, transportVars, platformVars>>

\* A coordinator that stays failed once a cycle has failed
refresh_coordinator_latching(c, r) ==
    /\ power_state' = [power_state EXCEPT ![c] = r.power_state]
    /\ data' = IF r.exc = "none" THEN [data EXCEPT ![c] = r.data] ELSE data
    /\ last_update_success' =
           [last_update_success EXCEPT ![c] = (r.exc = "none") /\ lastCycle[c] # "failed"]
    /\ lastCycle' = [lastCycle EXCEPT ![c] = IF r.exc = "none" THEN "ok" ELSE "failed"]
    /\ last' = Op("refresh", c, r.exc, r.log)
    /\ UNCHANGED <<coordinators, listener_commands, listeners>>
    /\ UNCHANGED <<descriptorVars, transportVars>>

\* One refresh of the DataUpdateCoordinator: it runs _async_update_data and,
\* when that returns, stores the dict in self.data; when it raises (UpdateFailed
\* or anything else) it keeps self.data and clears last_update_success.
refresh_coordinator(c, r) ==
    /\ power_state' = [power_state EXCEPT ![c] = r.power_state]
    /\ data' = IF r.exc = "none" THEN [data EXCEPT ![c] = r.data] ELSE data
    /\ last_update_success' = [last_update_success EXCEPT ![c] = (r.exc = "none")]
    /\ lastCycle' = [lastCycle EXCEPT ![c] = IF r.exc = "none" THEN "ok" ELSE "failed"]
    /\ last' = Op("refresh", c, r.exc, r.log)
    /\ UNCHANGED <<coordinators, listener_commands, listeners>>
    /\ UNCHANGED <<descriptorVars, transportVars>>

\* A refresh of a coordinator whose observers are not entities of the platforms
refresh(c, r) ==
    /\ refresh_coordinator(c, r)
    /\ UNCHANGED platformVars

\* coordinator.async_config_entry_first_refresh() of the media player platform
first_refresh(c, behaviours) ==
    /\ lastCycle[c] = "none"
    /\ \E r \in PollCyclesFor(ListenerCommands(c), behaviours) : refresh(c, r)

\* The timer of the DataUpdateCoordinator: armed while observers are attached
scheduled_refresh(c, behaviours) ==
    /\ NumListeners(c) > 0
    /\ \E r \in PollCyclesFor(ListenerCommands(c), behaviours) : refresh(c, r)

\* supports_command(command), called by the platforms for each entity key
supports_command(c, command, behaviour) ==
    LET e == QueryFor(command, behaviour)
        d == IF TruthyDict(data[c]) THEN data[c] ELSE EmptyDict
    IN
    /\ data' = IF e.res.exc = "none"
               THEN [data EXCEPT ![c] = (command :> e.res.value) @@ d]
               ELSE data
    /\ last' = Op("supports_command", c, e.res.exc, <<>>)
    /\ UNCHANGED <<coordinators, listener_commands, listeners, power_state,
                   last_update_success, lastCycle>>
    /\ UNCHANGED <<descriptorVars, transportVars, platformVars>>

----------------------------------------------------------------------------
(* Direct commands: exec_command called by an entity (switch, number, select) *)

\* The values an entity sends with the operator "="
SetValues == {"On", "Off"}

\* The (operator, value) pairs of the commands the entities and the
\* coordinator issue
Requests ==
    {<<"?", None>>, <<"+", None>>, <<"-", None>>} \cup
    {<<"=", v>> : v \in SetValues}

direct_command(c, command, operator, value, behaviour) ==
    /\ last' = LET e == exec_command(command, operator, value, behaviour)
               IN  Op("exec_command", c, e.res.exc, <<e>>)
    /\ UNCHANGED <<coordinators, listener_commands, listeners, power_state, data,
                   last_update_success, lastCycle>>
    /\ UNCHANGED <<descriptorVars, transportVars, platformVars>>

\* A Python number passed as the value of a command: the int n, or the float
\* with the integral value n
IntValue(n) == [float |-> FALSE, n |-> n]
FloatValue(n) == [float |-> TRUE, n |-> n]

\* The values a number entity is set to
NumberValues == {-5, 0, 5}

\* f"{value}" of a number: "5" of the int 5, "5.0" of the float 5.0
format(value) ==
    (IF value.n < 0 THEN <<"-">> ELSE <<>>)
        \o strChars(abs(value.n))
        \o (IF value.float THEN <<".", "0">> ELSE <<>>)

\* cmd = f"{command}{operator}";  if value: cmd = f"{cmd}{value}"
\* for a value that is a number: bool(value) is value != 0
encode_number(command, operator, value) ==
    IF value.n # 0
    THEN Chars(command) \o Chars(operator) \o format(value)
    ELSE Chars(command) \o Chars(operator)

\* One call of exec_command with a number for its value: the call, what went
\* on the wire, the behaviour of the device and what the caller got
exec_command_number(command, operator, value, behaviour) ==
    [command |-> command, operator |-> operator, value |-> value,
     behaviour |-> behaviour,
     sent |-> encode_number(command, operator, value),
     res |-> decode(command, communicate(command, behaviour))]

\* exec_command(key, "=", value) and exec_command(key, "=", int(value)) as
\* the number entity calls it
number_command(c, command, value, behaviour) ==
    /\ last' = Op("exec_command_number", c,
                  exec_command_number(command, "=", value, behaviour).res.exc,
                  <<exec_command_number(command, "=", value, behaviour)>>)
    /\ UNCHANGED <<coordinators, listener_commands, listeners, power_state, data,
                   last_update_success, lastCycle>>
    /\ UNCHANGED <<descriptorVars, transportVars, platformVars>>

----------------------------------------------------------------------------
(* The entities: their callbacks and their commands *)

\* str.lstrip(ch), str.replace(ch, "", 1) and str.isnumeric() on the
\* characters (the model has no digits outside 0..9)
RECURSIVE lstrip(_, _)
lstrip(cs, ch) ==
    IF cs # <<>> /\ Head(cs) = ch THEN lstrip(Tail(cs), ch) ELSE cs

RECURSIVE replace_first(_, _)
replace_first(cs, ch) ==
    IF cs = <<>> THEN <<>>
    ELSE IF Head(cs) = ch THEN Tail(cs)
    ELSE <<Head(cs)>> \o replace_first(Tail(cs), ch)

isnumeric(cs) == cs # <<>> /\ \A i \in 1..Len(cs) : cs[i] \in Range(Decimal)

\* float(s): the text of a number has at most one sign, then digits with at
\* most one point among them; any other text raises ValueError.  The numbers
\* of the model have no fractional part, and the value is kept as the text
\* Python prints it with ("5.0").
float_sign(cs) == IF cs # <<>> /\ Head(cs) = "-" THEN <<"-">> ELSE <<>>
float_digits(cs) ==
    IF cs # <<>> /\ Head(cs) \in {"-", "+"} THEN Tail(cs) ELSE cs
RECURSIVE float_whole(_)
float_whole(cs) ==
    IF cs = <<>> \/ Head(cs) = "." THEN <<>>
    ELSE <<Head(cs)>> \o float_whole(Tail(cs))
float_raises(cs) == ~isnumeric(replace_first(float_digits(cs), "."))
float(cs) == Str(float_sign(cs) \o float_whole(float_digits(cs)) \o <<".", "0">>)

\* The attributes of the entities, as one value
EntityState ==
    [attr_available |-> attr_available, attr_value |-> attr_value,
     attr_state |-> attr_state, written |-> written]
SetEntityState(st) ==
    /\ attr_available' = st.attr_available
    /\ attr_value' = st.attr_value
    /\ attr_state' = st.attr_state
    /\ written' = st.written

\* What a callback or a command of an entity did: the exception that left
\* it, the attributes it left
Done(st) == [exc |-> "none", st |-> st]
Failed(exc, st) == [exc |-> exc, st |-> st]

\* self.coordinator.data and self.coordinator.data.get(key)
get(d, key) == IF TruthyDict(d) /\ key \in DOMAIN d THEN d[key] ELSE None

\* The property `available` of an entity: of the media player,
\* self.state is not None; of the others, _attr_available and
\* coordinator.last_update_success
available(entity, st, success) ==
    IF entity = MediaPlayer THEN st.attr_state # None
    ELSE st.attr_available[entity] /\ success

\* The property `state` of an entity
state(entity, st) ==
    IF entity = MediaPlayer THEN st.attr_state
    ELSE IF st.attr_value[entity] = None THEN "unknown"
    ELSE IF entity = MainDimmer
    THEN (IF st.attr_value[entity] = "True" THEN ON ELSE OFF)
    ELSE st.attr_value[entity]

\* async_write_ha_state(): the state machine gets "unavailable" for an entity
\* that is not available, and its state otherwise
async_write_ha_state(entity, st, success) ==
    [st EXCEPT !.written[entity] =
        IF available(entity, st, success) THEN state(entity, st) ELSE "unavailable"]

\* The handler of the media player reading coordinator.muted whenever there
\* is a power state
media_player_update_ungated(st, power) ==
    IF power = None
    THEN Done([st EXCEPT !.attr_state = power])
    ELSE Failed("AttributeError", [st EXCEPT !.attr_state = power])

\* NAD._handle_coordinator_update: with no power state it returns before it
\* writes; with the power state ON it reads coordinator.muted, an attribute
\* the coordinator does not have.
media_player_update(st, power) ==
    IF power = None
    THEN Done([st EXCEPT !.attr_state = power])
    ELSE IF power = ON
    THEN Failed("AttributeError", [st EXCEPT !.attr_state = power])
    ELSE Done(async_write_ha_state(MediaPlayer, [st EXCEPT !.attr_state = power], TRUE))

\* NADReceiverSwitch._handle_coordinator_update, new_state being
\* coordinator.data.get(key)
switch_update(entity, st, new_state, success) ==
    IF Truthy(new_state) /\ lower(Chars(new_state)) \in {Chars("on"), Chars("off")}
    THEN Done(async_write_ha_state(entity,
                [st EXCEPT !.attr_value[entity] =
                               IF lower(Chars(new_state)) = Chars("on")
                               THEN "True" ELSE "False",
                           !.attr_available[entity] = TRUE],
                success))
    ELSE Done(async_write_ha_state(entity,
                [st EXCEPT !.attr_available[entity] = FALSE], success))

\* NADReceiverNumber._handle_coordinator_update
number_update(entity, st, new_value, success) ==
    IF Truthy(new_value)
           /\ isnumeric(replace_first(lstrip(Chars(new_value), "-"), "."))
    THEN IF float_raises(Chars(new_value))
         THEN Failed("ValueError", st)
         ELSE Done(async_write_ha_state(entity,
                     [st EXCEPT !.attr_value[entity] = float(Chars(new_value)),
                                !.attr_available[entity] = TRUE],
                     success))
    ELSE Done(async_write_ha_state(entity,
                [st EXCEPT !.attr_available[entity] = FALSE], success))

\* _handle_coordinator_update of an entity, the coordinator holding the
\* snapshot d, the power state `power` and last_update_success `success`
handle_coordinator_update(entity, st, d, power, success) ==
    IF entity = MediaPlayer THEN media_player_update(st, power)
    ELSE IF entity = MainDimmer THEN switch_update(entity, st, get(d, entity), success)
    ELSE number_update(entity, st, get(d, entity), success)

\* DataUpdateCoordinator.async_update_listeners: the callbacks are called in
\* the order the observers attached, and an exception of one leaves the loop
RECURSIVE async_update_listeners(_, _, _, _, _)
after_callback(seq, done, d, power, success) ==
    IF done.exc # "none" THEN done
    ELSE async_update_listeners(Tail(seq), done.st, d, power, success)
async_update_listeners(seq, st, d, power, success) ==
    IF seq = <<>> THEN Done(st)
    ELSE after_callback(seq,
             handle_coordinator_update(Head(seq), st, d, power, success),
             d, power, success)

\* What the device does with each query of the cycles the entities observe:
\* the power key answers On, Off or another text, the switch's key On or
\* another text, the number's key a number or a text float() refuses, and
\* each exchange can fail
PlatformBehaviours == {"On", "Off", "Five", "DoubleMinus", "IOError"}
PlatformAnswers ==
    {answer \in [Keys -> PlatformBehaviours] :
        /\ answer[MainPower] # "DoubleMinus"
        /\ answer[MainDimmer] \in {"On", "Five", "IOError"}
        /\ answer[MainBass] \in {"Five", "DoubleMinus", "IOError"}}

\* What the device does with each query while the entities send their
\* commands: it is on or off or does not answer, and the keys of the entities
\* answer with a value of their type
CommandAnswers ==
    {answer \in [Keys -> PlatformBehaviours] :
        /\ answer[MainPower] \in {"On", "Off", "IOError"}
        /\ answer[MainDimmer] = "On"
        /\ answer[MainBass] = "Five"}

\* Every way one poll cycle over `commands` can go against a set of answers,
\* evaluated once
PlatformCyclesOf ==
    {<<commands, answers, {async_update_data(commands, answer) : answer \in answers}>> :
        commands \in CommandLists, answers \in {PlatformAnswers, CommandAnswers}}
PlatformCyclesFor(commands, answers) ==
    (CHOOSE p \in PlatformCyclesOf : p[1] = commands /\ p[2] = answers)[3]

\* Failed cycles in a row that are counted
MaxFailures == 2

\* CoordinatorEntity.async_added_to_hass and the entity's own: the entity
\* attaches with its context (its key, or None for the media player), then
\* the switch and the number run their callback and the media player writes
\* its state.  The media player is added after a first refresh that
\* succeeded.
async_added_to_hass(c, entity) ==
    /\ entity \notin Range(observers)
    /\ entity = MediaPlayer => TruthyDict(data[c])
    /\ listeners' = [listeners EXCEPT
                        ![c][IF entity = MediaPlayer THEN None ELSE entity] = @ + 1]
    /\ listener_commands' =
           IF entity = MediaPlayer THEN listener_commands
           ELSE add_listener_command(ListenerCommands(c), entity)
    /\ observers' = Append(observers, entity)
    /\ \E done \in {IF entity = MediaPlayer
                    THEN Done(async_write_ha_state(entity, EntityState, TRUE))
                    ELSE handle_coordinator_update(entity, EntityState, data[c],
                             power_state[c], last_update_success[c])} :
           /\ SetEntityState(done.st)
           /\ last' = Op("async_added_to_hass", c, done.exc, <<>>)
    /\ UNCHANGED <<coordinators, power_state, data, last_update_success, lastCycle>>
    /\ UNCHANGED <<options, result, failures>>
    /\ UNCHANGED <<descriptorVars, transportVars>>

\* DataUpdateCoordinator._async_refresh of a coordinator the entities observe:
\* the cycle, then async_update_listeners unless this cycle and the one before
\* it both failed.
async_refresh(c, r) ==
    /\ (r.exc # "none" /\ lastCycle[c] = "failed") => failures < MaxFailures
    /\ refresh_coordinator(c, r)
    /\ failures' = IF lastCycle[c] = "failed"
                   THEN (IF r.exc = "none" THEN failures ELSE failures + 1)
                   ELSE (IF r.exc = "none" THEN 0 ELSE 1)
    /\ IF r.exc = "none" \/ last_update_success[c]
       THEN \E done \in {async_update_listeners(observers, EntityState,
                             IF r.exc = "none" THEN r.data ELSE data[c],
                             r.power_state, r.exc = "none")} :
                SetEntityState(done.st)
       ELSE UNCHANGED <<attr_available, attr_value, attr_state, written>>
    /\ UNCHANGED <<options, result, observers>>

\* async_config_entry_first_refresh of the media player platform, run again
\* when it failed
platform_first_refresh(c, answers) ==
    /\ MediaPlayer \notin Range(observers)
    /\ lastCycle[c] # "ok"
    /\ \E r \in PlatformCyclesFor(ListenerCommands(c), answers) : async_refresh(c, r)

\* The timer, armed while observers are attached
platform_scheduled_refresh(c, answers) ==
    /\ NumListeners(c) > 0
    /\ \E r \in PlatformCyclesFor(ListenerCommands(c), answers) : async_refresh(c, r)

\* What the switch does with the response of its command: `expected` is "on"
\* for async_turn_on and "off" for async_turn_off
switch_response(entity, st, e, expected, success) ==
    IF e.res.exc # "none" THEN Failed(e.res.exc, st)
    ELSE IF e.res.value = None THEN Failed("AttributeError", st)
    ELSE IF lower(Chars(e.res.value)) = Chars(expected)
    THEN Done(async_write_ha_state(entity,
                [st EXCEPT !.attr_value[entity] =
                               IF expected = ON THEN "True" ELSE "False",
                           !.attr_available[entity] = TRUE],
                success))
    ELSE Done(async_write_ha_state(entity,
                [st EXCEPT !.attr_available[entity] = FALSE], success))

\* NADReceiverSwitch.async_turn_on / async_turn_off
switch_command(c, name, value, expected, behaviour) ==
    /\ MainDimmer \in Range(observers)
    /\ \E e \in {exec_command(MainDimmer, "=", value, behaviour)} :
       \E done \in {switch_response(MainDimmer, EntityState, e, expected,
                                    last_update_success[c])} :
           /\ SetEntityState(done.st)
           /\ last' = Op(name, c, done.exc, <<e>>)
    /\ UNCHANGED <<coordinators, listener_commands, listeners, power_state, data,
                   last_update_success, lastCycle>>
    /\ UNCHANGED <<options, result, observers, failures>>
    /\ UNCHANGED <<descriptorVars, transportVars>>

async_turn_on(c, behaviour) == switch_command(c, "async_turn_on", "On", ON, behaviour)
async_turn_off(c, behaviour) == switch_command(c, "async_turn_off", "Off", OFF, behaviour)

\* What the number does with the response of its command
number_response(entity, st, e, success) ==
    IF e.res.exc # "none" THEN Failed(e.res.exc, st)
    ELSE IF e.res.value = None THEN Failed("AttributeError", st)
    ELSE IF isnumeric(replace_first(lstrip(Chars(e.res.value), "-"), "."))
    THEN IF float_raises(Chars(e.res.value))
         THEN Failed("ValueError", st)
         ELSE Done(async_write_ha_state(entity,
                     [st EXCEPT !.attr_value[entity] = float(Chars(e.res.value)),
                                !.attr_available[entity] = TRUE],
                     success))
    ELSE Done(async_write_ha_state(entity,
                [st EXCEPT !.attr_available[entity] = FALSE], success))

\* async_set_native_value without the check of the power state
async_set_native_value_unguarded(c, n, step, behaviour) ==
    /\ MainBass \in Range(observers)
    /\ IF attr_value[MainBass] = Str(format(FloatValue(n)))
       THEN /\ UNCHANGED <<attr_available, attr_value, attr_state, written>>
            /\ last' = Op("async_set_native_value", c, "none", <<>>)
       ELSE IF step = "unset"
       THEN /\ UNCHANGED <<attr_available, attr_value, attr_state, written>>
            /\ last' = Op("async_set_native_value", c, "AttributeError", <<>>)
       ELSE \E e \in {exec_command_number(MainBass, "=",
                          IF step = "fraction" THEN FloatValue(n) ELSE IntValue(n),
                          behaviour)} :
            \E done \in {number_response(MainBass, EntityState, e,
                                         last_update_success[c])} :
                /\ SetEntityState(done.st)
                /\ last' = Op("async_set_native_value", c, done.exc, <<e>>)
    /\ UNCHANGED <<coordinators, listener_commands, listeners, power_state, data,
                   last_update_success, lastCycle>>
    /\ UNCHANGED <<options, result, observers, failures>>
    /\ UNCHANGED <<descriptorVars, transportVars>>

\* NADReceiverNumber.async_set_native_value(value).  The entity sets no
\* _attr_native_step: `step` is what reading it gives, "unset" for the
\* AttributeError, "fraction" for a step below 1 and "whole" otherwise.
async_set_native_value(c, n, step, behaviour) ==
    /\ MainBass \in Range(observers)
    /\ IF power_state[c] # ON
       THEN /\ SetEntityState(async_write_ha_state(MainBass,
                   [EntityState EXCEPT !.attr_available[MainBass] = FALSE],
                   last_update_success[c]))
            /\ last' = Op("async_set_native_value", c, "none", <<>>)
       ELSE IF attr_value[MainBass] = Str(format(FloatValue(n)))
       THEN /\ UNCHANGED <<attr_available, attr_value, attr_state, written>>
            /\ last' = Op("async_set_native_value", c, "none", <<>>)
       ELSE IF step = "unset"
       THEN /\ UNCHANGED <<attr_available, attr_value, attr_state, written>>
            /\ last' = Op("async_set_native_value", c, "AttributeError", <<>>)
       ELSE \E e \in {exec_command_number(MainBass, "=",
                          IF step = "fraction" THEN FloatValue(n) ELSE IntValue(n),
                          behaviour)} :
            \E done \in {number_response(MainBass, EntityState, e,
                                         last_update_success[c])} :
                /\ SetEntityState(done.st)
                /\ last' = Op("async_set_native_value", c, done.exc, <<e>>)
    /\ UNCHANGED <<coordinators, listener_commands, listeners, power_state, data,
                   last_update_success, lastCycle>>
    /\ UNCHANGED <<options, result, observers, failures>>
    /\ UNCHANGED <<descriptorVars, transportVars>>

----------------------------------------------------------------------------
(* Specifications *)

\* One config entry: one coordinator, its observers, its poll cycles and the
\* capability probes of the platforms.
Next ==
    \/ \E c \in coordinators, context \in Contexts : async_add_listener(c, context)
    \/ \E c \in coordinators, context \in Contexts : remove_listener(c, context)
    \/ \E c \in coordinators : first_refresh(c, Behaviours)
    \/ \E c \in coordinators : scheduled_refresh(c, Behaviours)
    \/ \E c \in coordinators, command \in EntityKeys, behaviour \in Behaviours :
           supports_command(c, command, behaviour)

Spec == Init /\ [][Next]_vars

\* Two config entries: two coordinators alive, each with a device that
\* answers every query.
InitTwo ==
    /\ coordinators = AllCoordinators
    /\ listener_commands = <<>>
    /\ listeners = [c \in AllCoordinators |-> [x \in Contexts |-> 0]]
    /\ power_state = [c \in AllCoordinators |-> None]
    /\ data = [c \in AllCoordinators |-> NoneData]
    /\ last_update_success = [c \in AllCoordinators |-> TRUE]
    /\ lastCycle = [c \in AllCoordinators |-> "none"]
    /\ last = Op("init", "c1", "none", <<>>)
    /\ InitRegistered
    /\ InitTransport
    /\ InitPlatform

NextTwo ==
    \/ \E c \in coordinators, context \in Contexts : async_add_listener(c, context)
    \/ \E c \in coordinators, context \in Contexts : remove_listener(c, context)
    \/ \E c \in coordinators : first_refresh(c, NominalBehaviours)
    \/ \E c \in coordinators : scheduled_refresh(c, NominalBehaviours)
    \/ \E c \in coordinators, command \in EntityKeys, behaviour \in NominalBehaviours :
           supports_command(c, command, behaviour)

SpecTwo == InitTwo /\ [][NextTwo]_vars

\* The command codec: exec_command applied to every request and every outcome
\* of the exchange.
NextCodec ==
    \E c \in coordinators, command \in Keys, request \in Requests :
        \E behaviour \in CodecBehaviours :
            direct_command(c, command, request[1], request[2], behaviour)

SpecCodec == Init /\ [][NextCodec]_vars

\* The entities of a coordinator in use: they attach with their keys, the
\* coordinator polls a device that answers every query, and the switches send
\* their set commands.
SetBehaviours == {"On", "Off", "unsupported", "mismatch"}

NextEntity ==
    \/ \E c \in coordinators, context \in EntityKeys : async_add_listener(c, context)
    \/ \E c \in coordinators : scheduled_refresh(c, NominalBehaviours)
    \/ \E c \in coordinators, value \in SetValues, behaviour \in SetBehaviours :
           direct_command(c, MainDimmer, "=", value, behaviour)

SpecEntity == Init /\ [][NextEntity]_vars

\* The exchanges on the port: exec_command on the event loop, the media
\* player's commands on the worker threads, over a serial or a telnet
\* connection, with or without a lock inside the library's communicate.
InitExchanges ==
    /\ coordinators = {"c1"}
    /\ listener_commands = <<>>
    /\ listeners = [c \in AllCoordinators |-> [x \in Contexts |-> 0]]
    /\ power_state = [c \in AllCoordinators |-> None]
    /\ data = [c \in AllCoordinators |-> NoneData]
    /\ last_update_success = [c \in AllCoordinators |-> TRUE]
    /\ lastCycle = [c \in AllCoordinators |-> "none"]
    /\ last = Op("init", "c1", "none", <<>>)
    /\ InitRegistered
    /\ config_type \in {"serial", "telnet"}
    /\ locking \in BOOLEAN
    /\ InitIdle
    /\ InitPlatform

NextExchanges ==
    \/ \E by \in Callers : reset_input_buffer(by)
    \/ \E by \in Callers : communicate_send(by)
    \/ \E t \in Workers : media_player_send(t)
    \/ \E t \in Threads : communicate_receive(t)

SpecExchanges == InitExchanges /\ [][NextExchanges]_vars

\* Setup: a coordinator is constructed and connected against one of the
\* devices, connect() may be called again, and the registered coordinator runs
\* its first poll cycle.
ConnectCoordinators == {"c1"}

InitConnect ==
    /\ coordinators = {}
    /\ listener_commands = <<>>
    /\ listeners = [c \in AllCoordinators |-> [x \in Contexts |-> 0]]
    /\ power_state = [c \in AllCoordinators |-> None]
    /\ data = [c \in AllCoordinators |-> NoneData]
    /\ last_update_success = [c \in AllCoordinators |-> TRUE]
    /\ lastCycle = [c \in AllCoordinators |-> "none"]
    /\ last = Op("init", "c1", "none", <<>>)
    /\ model = [c \in AllCoordinators |-> None]
    /\ version = [c \in AllCoordinators |-> None]
    /\ device_info = [c \in AllCoordinators |-> None]
    /\ sources = [c \in AllCoordinators |-> Unset]
    /\ hass_data = {}
    /\ device \in Devices
    /\ returned = None
    /\ InitTransport
    /\ InitPlatform

NextConnect ==
    \/ \E c \in ConnectCoordinators : async_setup_entry(c)
    \/ \E c \in coordinators : connect(c)
    \/ \E c \in hass_data : first_refresh(c, NominalBehaviours)

SpecConnect == InitConnect /\ [][NextConnect]_vars

\* The order of the queries: keys subscribed in any order, Main.Power among
\* them, and the cycles of the timer armed by the media player.
OrderBehaviours == {"On", "Off", "IOError"}

NextOrder ==
    \/ \E c \in coordinators : async_add_listener(c, None)
    \/ \E c \in coordinators, command \in Keys : add_listener_command_call(c, command)
    \/ \E c \in coordinators : scheduled_refresh(c, OrderBehaviours)

SpecOrder == Init /\ [][NextOrder]_vars

\* The entities of one coordinator and its poll cycles: the entities attach
\* in any order and the coordinator polls a device that can do anything.
NextPlatform ==
    \/ \E c \in coordinators, entity \in Entities : async_added_to_hass(c, entity)
    \/ \E c \in coordinators : platform_first_refresh(c, PlatformAnswers)
    \/ \E c \in coordinators : platform_scheduled_refresh(c, PlatformAnswers)

SpecPlatform == Init /\ [][NextPlatform]_vars

\* The commands of the entities: the switch and the number attach, the
\* coordinator polls, and the entities send their commands to a device that
\* echoes them, answers with an empty reply or with the reply of another key.
SwitchBehaviours == {"On", "Off", "unsupported", "mismatch"}
NumberBehaviours == {"Five", "unsupported"}
Steps == {"unset", "fraction", "whole"}

NextCommands ==
    \/ \E c \in coordinators, entity \in EntityKeys : async_added_to_hass(c, entity)
    \/ \E c \in coordinators : platform_scheduled_refresh(c, CommandAnswers)
    \/ \E c \in coordinators, behaviour \in SwitchBehaviours : async_turn_on(c, behaviour)
    \/ \E c \in coordinators, behaviour \in SwitchBehaviours : async_turn_off(c, behaviour)
    \/ \E c \in coordinators, n \in NumberValues, step \in Steps :
           \E behaviour \in NumberBehaviours :
               async_set_native_value(c, n, step, behaviour)

SpecCommands == Init /\ [][NextCommands]_vars

\* The encoding of commands: exec_command called with every request and
\* with the numbers a number entity is set to.
NextEncode ==
    \/ \E c \in coordinators, command \in Keys, request \in Requests :
           \E behaviour \in CodecBehaviours :
               direct_command(c, command, request[1], request[2], behaviour)
    \/ \E c \in coordinators, n \in NumberValues, behaviour \in NominalBehaviours :
           \/ number_command(c, MainBass, IntValue(n), behaviour)
           \/ number_command(c, MainBass, FloatValue(n), behaviour)

SpecEncode == Init /\ [][NextEncode]_vars

\* The options flow and the media player's volume conversion: the form is
\* submitted, a reply's decibel value is converted to a level and a level to
\* the decibel value sent.
NextVolume ==
    \/ \E min_volume, max_volume \in VolumeInputs :
           async_step_init(min_volume, max_volume)
    \/ \E decibel \in Decibels : call_calc_volume(decibel)
    \/ \E volume \in Levels : call_calc_db(volume)

SpecVolume == Init /\ [][NextVolume]_vars

----------------------------------------------------------------------------
(* Claims *)

\* The state was produced by a poll cycle / by a direct command
AfterCycle == last.op = "refresh"
AfterCommand == last.op = "exec_command"

\* The exchange of a log for a key, or none
Asked(log, k) == \E i \in 1..Len(log) : log[i].command = k

\* The power query of the last cycle returned a non-empty value
PowerValue == last.log[1].res.value
PowerAnswered == last.log[1].res.exc = "none" /\ Truthy(PowerValue)
PowerObservedOn == PowerAnswered /\ lower(Chars(PowerValue)) = Chars("on")

\* No exchange of the last cycle hit a transport-level error
NoTransportError ==
    \A i \in 1..Len(last.log) : Received(last.log[i]).exc = "none"

\* Every exchange of the last cycle was answered with a value
AllAnswered ==
    \A i \in 1..Len(last.log) :
        last.log[i].res.exc = "none" /\ last.log[i].res.value # None

\* The exchanges of the last cycle that got an empty reply
EmptyReplies == {i \in 1..Len(last.log) : Received(last.log[i]) = Returns(<<>>)}

\* C1: in a poll cycle whose Main.Power query returns a non-empty value that is
\* not "on" (any case), Main.Power is the only key queried and the snapshot
\* published holds exactly the key Main.Power.
C1_OffPublishesOnlyPower ==
    (AfterCycle /\ PowerAnswered /\ ~PowerObservedOn /\ AllAnswered) =>
        /\ Len(last.log) = 1
        /\ last.exc = "none"
        /\ DOMAIN data[last.c] = {MainPower}

\* C2: in a poll cycle that observes power On and in which the query of one
\* subscribed key gets the empty reply, the cycle is not aborted: every
\* subscribed key is queried and the snapshot published holds Main.Power and
\* every subscribed key but the unsupported one.
C2_UnsupportedKeyTolerated ==
    (AfterCycle /\ PowerObservedOn /\ NoTransportError
        /\ Cardinality(EmptyReplies) = 1) =>
        /\ last.exc = "none"
        /\ \A k \in Range(ListenerCommands(last.c)) : Asked(last.log, k)
        /\ DOMAIN data[last.c] =
              ({MainPower} \cup Range(ListenerCommands(last.c)))
                  \ {last.log[i].command : i \in EmptyReplies}

\* What the caller of exec_command gets, by kind
Reported(res) ==
    CASE res.exc = "CommandNotSupportedError" -> "CommandNotSupported"
      [] res.exc = "none" /\ res.value # None -> "value"
      [] OTHER -> "failure"

\* The values a reply can carry after the first "="
ReplyValues == {"On", "Off", "ON", "", "a=b"}

\* C3: decoding a reply against the key it was sent for: KEY=VALUE for the
\* requested key yields VALUE; a non-empty reply that does not start with the
\* key and "=" yields a failure that is neither a value nor
\* CommandNotSupported; the empty reply yields CommandNotSupported.
C3_DecodeOutcomes ==
    AfterCommand =>
        LET e == last.log[1]
            msg == Received(e).msg
            key == Chars(e.command)
        IN
        Received(e).exc = "none" =>
            /\ \A v \in ReplyValues :
                  msg = Reply(key, Chars(v)) =>
                      Reported(e.res) = "value" /\ e.res.value = v
            /\ (msg # <<>> /\ ~startswith(lower(msg), lower(key) \o <<"=">>)) =>
                      Reported(e.res) = "failure"
            /\ msg = <<>> => Reported(e.res) = "CommandNotSupported"

\* C4: the subscription set holds each key at most once.
C4_NoDuplicateSubscription ==
    \A i, j \in 1..Len(listener_commands) :
        listener_commands[i] = listener_commands[j] => i = j

\* Two observers are attached with the same key, which is subscribed once
C4_Witness ==
    \E c \in coordinators, k \in EntityKeys :
        /\ listeners[c][k] = 2
        /\ Cardinality({i \in 1..Len(listener_commands) : listener_commands[i] = k}) = 1

\* C5: a subscribed key whose last observer has detached is still queried in
\* every poll cycle that observes power On (and meets no transport error).
C5_SubscribedKeyStillQueried ==
    (AfterCycle /\ PowerObservedOn /\ NoTransportError) =>
        \A k \in Range(ListenerCommands(last.c)) :
            listeners[last.c][k] = 0 => Asked(last.log, k)

\* The growth half of C5: no step removes a key from the subscription set.
C5_SubscriptionOnlyGrows ==
    [][Range(listener_commands) \subseteq Range(listener_commands')]_vars

\* C6: attaching an observer to one coordinator leaves the subscription set
\* of every other coordinator unchanged.
C6_SubscriptionOwnedByOneCoordinator ==
    [][\A c \in coordinators :
          (last'.op = "async_add_listener" /\ last'.c = c) =>
              \A d \in coordinators \ {c} :
                  ListenerCommands(d)' = ListenerCommands(d)]_vars

\* C7: the first exchange of a poll cycle is the Main.Power query, and when
\* that query fails or yields no value it is the only exchange of the cycle.
C7_PowerFirstAndGates ==
    AfterCycle =>
        /\ Len(last.log) >= 1
        /\ Sent(last.log[1]) = Chars("Main.Power") \o Chars("?")
        /\ ~PowerAnswered => Len(last.log) = 1

\* A cycle with two keys subscribed whose power query was not answered
C7_Witness ==
    /\ AfterCycle
    /\ Len(ListenerCommands(last.c)) = 2
    /\ ~PowerAnswered
    /\ Len(last.log) = 1

\* C8: a poll cycle whose Main.Power query gets the empty reply or yields no
\* value fails: the power state becomes None, the update is reported failed
\* and the snapshot stays as it was.
C8_PowerFailureIsPollFailure ==
    [][(last'.op = "refresh"
          /\ \/ last'.log[1].res.exc = "CommandNotSupportedError"
             \/ last'.log[1].res.exc = "none" /\ ~Truthy(last'.log[1].res.value)) =>
            /\ power_state'[last'.c] = None
            /\ last'.exc = "UpdateFailed"
            /\ ~last_update_success'[last'.c]
            /\ data' = data]_vars

\* A failed power query after a snapshot was published: the snapshot is kept
C8_Witness ==
    /\ AfterCycle
    /\ Received(last.log[1]) = Returns(<<>>)
    /\ data[last.c] # NoneData
    /\ MainPower \in DOMAIN data[last.c]
    /\ power_state[last.c] = None

\* C9: the power state is None exactly when no poll cycle has succeeded yet
\* or the most recent poll cycle failed.
C9_UnknownIffNoSuccessfulCycle ==
    \A c \in coordinators :
        power_state[c] = None <=> lastCycle[c] \in {"none", "failed"}

\* C10: the snapshot changes only by being replaced with the result of a
\* completed poll cycle.
C10_SnapshotOnlyFromCycle ==
    [][\A c \in coordinators :
          data'[c] # data[c] =>
              last'.op = "refresh" /\ last'.c = c /\ last'.exc = "none"]_vars

\* The exchanges of the last operation in which the transport raised `exc`
RaisedIn(log, exc) == {i \in 1..Len(log) : Received(log[i]).exc = exc}

\* C11: a transport-level I/O failure raised by any exchange of a poll cycle
\* aborts the cycle: the failing exchange is the last of the cycle, no snapshot
\* is published, the update is reported failed and the power state becomes
\* None.
C11_TransportFailureAborts ==
    [][(last'.op = "refresh" /\ RaisedIn(last'.log, "IOError") # {}) =>
            /\ RaisedIn(last'.log, "IOError") = {Len(last'.log)}
            /\ last'.exc # "none"
            /\ ~last_update_success'[last'.c]
            /\ data' = data
            /\ power_state'[last'.c] = None]_vars

\* C12 (poll cycle): a UnicodeDecodeError from the transport during any
\* exchange of a poll cycle aborts the cycle: the failing exchange is the last
\* of the cycle and the cycle fails.
C12_DecodeFailureAbortsCycle ==
    (AfterCycle /\ RaisedIn(last.log, "UnicodeDecodeError") # {}) =>
        /\ RaisedIn(last.log, "UnicodeDecodeError") = {Len(last.log)}
        /\ last.exc # "none"

\* The exchanges of the last cycle, after the power query, whose reply was
\* the echo of another key
Mismatched ==
    {i \in 2..Len(last.log) : last.log[i].behaviour = "mismatch"}

\* C13: in a poll cycle that observes power On, in which every query of a
\* subscribed key is answered and one answer is the echo of another key, the
\* cycle is not aborted: every subscribed key is queried and the snapshot
\* published holds the value of every exchange.
C13_MismatchConfinedToKey ==
    (AfterCycle /\ PowerObservedOn /\ Mismatched # {}
        /\ \A i \in 2..Len(last.log) :
              last.log[i].behaviour \in {"On", "Off", "NoValue", "mismatch"}) =>
        /\ last.exc = "none"
        /\ last_update_success[last.c]
        /\ \A k \in Range(ListenerCommands(last.c)) : Asked(last.log, k)
        /\ \A i \in 1..Len(last.log) :
              /\ last.log[i].command \in DOMAIN data[last.c]
              /\ data[last.c][last.log[i].command] = last.log[i].res.value

\* A cycle over two subscribed keys: the first answered with the echo of
\* another key, the second with its value, which the snapshot holds
C13_Witness ==
    /\ AfterCycle
    /\ Len(last.log) = 3
    /\ PowerObservedOn
    /\ last.log[2].behaviour = "mismatch"
    /\ last.log[3].behaviour = "On"
    /\ last.exc = "none"
    /\ data[last.c][last.log[3].command] = "On"
    /\ data[last.c][last.log[2].command] = None

\* C12 (connect): a UnicodeDecodeError from the transport during a query of
\* connect aborts setup: connect does not return True and the coordinator is
\* not registered.
C12_DecodeFailureAbortsSetup ==
    (last.op = "async_setup_entry" /\ RaisedIn(last.log, "UnicodeDecodeError") # {}) =>
        /\ returned # "True"
        /\ last.c \notin hass_data

\* The state was produced by a call of connect that issued queries
AfterConnect == last.op \in {"connect", "async_setup_entry"} /\ last.log # <<>>

\* The probes of source enumeration and the index they are for
IsEnabledProbe(e) == \E i \in 1..NumSources : e.command = SourceEnabled(i)
IsNameProbe(e) == \E i \in 1..NumSources : e.command = SourceName(i)
IndexOf(e) ==
    CHOOSE i \in 1..NumSources : e.command \in {SourceEnabled(i), SourceName(i)}
EnabledProbes(log) == {j \in 1..Len(log) : IsEnabledProbe(log[j])}

\* The reply of an exchange is empty / is "yes" in any case
EmptyReply(e) == Received(e) = Returns(<<>>)
Affirmative(e) ==
    /\ e.res.exc = "none"
    /\ e.res.value # None
    /\ lower(Chars(e.res.value)) = Chars("yes")

\* C16: source enumeration probes SourceN.Enabled for N = 1, 2, ... in
\* increasing order, at most 12 times; no probe follows a SourceN.Enabled query
\* that got the empty reply; a SourceN.Name query comes directly after an
\* affirmative reply to SourceN.Enabled for the same N.
C16_SourceEnumerationOrder ==
    AfterConnect =>
        LET log == last.log
            E == EnabledProbes(log)
        IN  /\ Cardinality(E) <= NumSources
            /\ \A j \in E : IndexOf(log[j]) = Cardinality({h \in E : h <= j})
            /\ \A j \in E : EmptyReply(log[j]) => j = Len(log)
            /\ \A j \in 1..Len(log) :
                  IsNameProbe(log[j]) =>
                      /\ j > 1
                      /\ IsEnabledProbe(log[j - 1])
                      /\ IndexOf(log[j - 1]) = IndexOf(log[j])
                      /\ Affirmative(log[j - 1])

\* An enumeration that queried a name and halted at index 6 on the empty reply
C16_Witness ==
    /\ AfterConnect
    /\ \E j \in 1..Len(last.log) : IsNameProbe(last.log[j])
    /\ IsEnabledProbe(last.log[Len(last.log)])
    /\ IndexOf(last.log[Len(last.log)]) = 6
    /\ EmptyReply(last.log[Len(last.log)])
    /\ returned = "True"

\* C17: after a source enumeration that met no transport error, index N is in
\* the source map iff the device answers SourceN.Enabled with "yes" (any case)
\* and gives the empty reply to no SourceM.Enabled with M <= N; and the
\* enumeration ends before index 12 only on the empty reply to a
\* SourceN.Enabled query.
C17_SourceMapMembership ==
    (AfterConnect /\ returned = "True"
        /\ \A j \in 1..Len(last.log) : Received(last.log[j]).exc = "none") =>
        /\ \A n \in 1..NumSources :
              n \in DOMAIN sources[last.c] <=>
                  /\ SlotOf(device, n)[1] \in {"Yes", "YES"}
                  /\ \A m \in 1..n : SlotOf(device, m)[1] # "unsupported"
        /\ Cardinality(EnabledProbes(last.log)) < NumSources =>
              /\ IsEnabledProbe(last.log[Len(last.log)])
              /\ EmptyReply(last.log[Len(last.log)])

\* C18: when the Main.Model or the Main.Version query of the connect of
\* async_setup_entry gets the empty reply, connect returns False, no source
\* probe is issued, setup raises ConfigEntryNotReady and the coordinator is not
\* registered; and no coordinator is ever registered against such a device.
C18_IdentityFailureFailsSetup ==
    /\ (last.op = "async_setup_entry"
          /\ \E j \in 1..Len(last.log) :
                /\ last.log[j].command \in {"Main.Model", "Main.Version"}
                /\ EmptyReply(last.log[j])) =>
          /\ returned = "False"
          /\ \A j \in 1..Len(last.log) :
                last.log[j].command \in {"Main.Model", "Main.Version"}
          /\ last.exc = "ConfigEntryNotReady"
          /\ last.c \notin hass_data
    /\ (device.model = "unsupported" \/ device.version = "unsupported") =>
          hass_data = {}

\* Setup against a device that answers Main.Model and gives the empty reply
\* to Main.Version
C18_Witness ==
    /\ last.op = "async_setup_entry"
    /\ Len(last.log) = 2
    /\ last.log[1].res.value = "CD"
    /\ EmptyReply(last.log[2])
    /\ returned = "False"
    /\ model[last.c] = "CD"
    /\ last.c \notin hass_data

\* A connect call has returned True for c: self.sources is set
Resolved(c) == sources[c] # Unset

\* C19: once a connect call has resolved the descriptor of a coordinator, no
\* step changes its model, version, device_info or sources, and no later
\* operation on it issues a Main.Model, Main.Version or SourceN query.
C19_DescriptorResolvedOnce ==
    [][\A c \in coordinators :
          Resolved(c) =>
              /\ model'[c] = model[c]
              /\ version'[c] = version[c]
              /\ device_info'[c] = device_info[c]
              /\ sources'[c] = sources[c]
              /\ last'.c = c =>
                    \A j \in 1..Len(last'.log) :
                        last'.log[j].command \notin ProbeKeys]_vars

\* C20: after a set command that the device echoes with the value sent, for a
\* key the snapshot holds, the snapshot holds the echoed value for that key.
C20_DirectCommandUpdatesSnapshot ==
    AfterCommand =>
        LET e == last.log[1] IN
        (/\ e.operator = "="
         /\ e.res.exc = "none"
         /\ e.res.value = e.value
         /\ e.command \in DOMAIN data[last.c]) =>
            data[last.c][e.command] = e.res.value

\* Thread t starts an exchange / flushes the input buffer in this step
Sends(t) == pc'[t].at = "sent" /\ pc[t].at # "sent"
Flushes(t) == pc'[t].at = "flushed" /\ pc[t].at # "flushed"

\* C14: no thread starts an exchange, and none flushes the input buffer, while
\* the exchange of another thread is between its send and its receive.
C14_OneExchangeInFlight ==
    [][\A t \in Threads : (Sends(t) \/ Flushes(t)) => InFlight(t) = {}]_vars

\* C15: on a serial connection every send is immediately preceded, on the
\* port, by a flush of the input buffer by the sending thread.
C15_FlushBeforeEveryExchange ==
    [][\A t \in Threads :
          (config_type = "serial" /\ Sends(t)) =>
              wire = [op |-> "flush", t |-> t]]_vars

\* C24: with bounds minDb < maxDb and a reply minDb <= replyDb <= maxDb,
\* calc_volume returns (replyDb - minDb) / (maxDb - minDb), which lies in
\* [0, 1]; with the bounds -92 and -20 and the reply -56 it returns 0.5.
C24_CalcVolumeFraction ==
    (/\ result.op = "calc_volume"
     /\ options.min_volume < options.max_volume
     /\ options.min_volume <= result.decibel
     /\ result.decibel <= options.max_volume) =>
        /\ result.exc = "none"
        /\ result.value[1] * (options.max_volume - options.min_volume)
               = (result.decibel - options.min_volume) * result.value[2]
        /\ LessEq(<<0, 1>>, result.value)
        /\ LessEq(result.value, <<1, 1>>)
        /\ (options = DefaultOptions /\ result.decibel = -56) =>
               2 * result.value[1] = result.value[2]

C24_Witness ==
    /\ result.op = "calc_volume"
    /\ options = DefaultOptions
    /\ result.decibel = -56
    /\ result.value = <<36, 72>>

\* C25: with bounds minDb < maxDb and a level f in [0, 1], calc_db(f) lies in
\* [minDb, maxDb] and calc_volume(calc_db(f)) differs from f by at most
\* 1 / (2 * (maxDb - minDb)).
C25_VolumeRoundTrip ==
    (result.op = "calc_db" /\ options.min_volume < options.max_volume) =>
        LET back == calc_volume(options, result.value[1]) IN
        /\ options.min_volume <= result.value[1]
        /\ result.value[1] <= options.max_volume
        /\ back.exc = "none"
        /\ LessEq(Distance(back.value, result.volume),
                  <<1, 2 * (options.max_volume - options.min_volume)>>)

\* A level half a step away from the decibel value it is rounded to
C25_Witness ==
    /\ result.op = "calc_db"
    /\ options.min_volume < options.max_volume
    /\ LET back == calc_volume(options, result.value[1]).value
           far == Distance(back, result.volume)
       IN  far[1] * 2 * (options.max_volume - options.min_volume) = far[2]

\* C26: the options accepted have min_volume < max_volume, and calc_volume
\* never divides by zero.
C26_BoundsValidated ==
    /\ options.min_volume < options.max_volume
    /\ result.exc # "ZeroDivisionError"

\* C22: a set command with a value puts key, "=" and the text of the value
\* on the wire, also when the value is the number 0; a query, an increment and
\* a decrement without a value put key and operator on the wire and nothing
\* more.
C22_EncodingConcatenates ==
    /\ last.op = "exec_command" =>
          LET e == last.log[1] IN
          /\ (e.operator = "=" /\ e.value # None) =>
                 Sent(e) = Chars(e.command) \o <<"=">> \o Chars(e.value)
          /\ (e.operator \in {"?", "+", "-"} /\ e.value = None) =>
                 Sent(e) = Chars(e.command) \o Chars(e.operator)
    /\ last.op = "exec_command_number" =>
          LET e == last.log[1] IN
          e.sent = Chars(e.command) \o <<"=">> \o format(e.value)

\* The commands of the entities
EntityCommands == {"async_turn_on", "async_turn_off", "async_set_native_value"}

\* C21: a command of an entity that gets the empty reply makes one exchange,
\* leaves the entity with CommandNotSupportedError, and changes neither the
\* snapshot nor the value the entity holds.
C21_EmptyReplyDirectCommand ==
    [][(/\ last'.op \in EntityCommands
        /\ last'.log # <<>>
        /\ last'.log[1].behaviour = "unsupported") =>
           /\ Len(last'.log) = 1
           /\ last'.exc = "CommandNotSupportedError"
           /\ data' = data
           /\ attr_value' = attr_value]_vars

\* The switch, holding a value the snapshot holds too, was turned on and got
\* the empty reply
C21_Witness ==
    /\ last.op = "async_turn_on"
    /\ last.exc = "CommandNotSupportedError"
    /\ attr_value[MainDimmer] # None
    /\ MainDimmer \in DOMAIN data[last.c]

\* C23: after a poll cycle the power state is ON iff the value of Main.Power
\* is "on" in any case, OFF iff it is "off" in any case, and None for any
\* other value and when there is no value.
C23_PowerStateDerivation ==
    AfterCycle =>
        LET text == IF PowerAnswered THEN lower(Chars(PowerValue)) ELSE <<>> IN
        /\ power_state[last.c] = ON <=> text = Chars("on")
        /\ power_state[last.c] = OFF <=> text = Chars("off")
        /\ power_state[last.c] = None <=> text \notin {Chars("on"), Chars("off")}

\* The value the snapshot holds for the key of an entity is valid for the
\* entity: "on" or "off" in any case for the switch, the text of a number for
\* the number
Valid(entity, d) ==
    /\ Truthy(get(d, entity))
    /\ IF entity = MainDimmer
       THEN lower(Chars(get(d, entity))) \in {Chars("on"), Chars("off")}
       ELSE ~float_raises(Chars(get(d, entity)))

\* C27: while the most recent poll cycle is a failed one no attached switch or
\* number is available, and while it is a successful one such an entity is
\* available iff the snapshot holds a valid value for its key.
C27_AvailabilityFollowsCycle ==
    \A c \in coordinators, entity \in EntityKeys :
        entity \in Range(observers) =>
            /\ lastCycle[c] = "failed" =>
                   ~available(entity, EntityState, last_update_success[c])
            /\ lastCycle[c] = "ok" =>
                   (available(entity, EntityState, last_update_success[c])
                        <=> Valid(entity, data[c]))

\* C28: a poll cycle that fails while the state the media player wrote last
\* is ON or OFF makes the media player write "unavailable".
C28_MediaPlayerUnavailableAfterFailure ==
    [][(/\ last'.op = "refresh"
        /\ last'.exc # "none"
        /\ MediaPlayer \in Range(observers)
        /\ written[MediaPlayer] \in {ON, OFF}) =>
           written'[MediaPlayer] = "unavailable"]_vars

\* C29: whatever the number of failed cycles before it, a cycle in which
\* every query is answered with a value succeeds: it publishes the values of
\* its queries as the snapshot and the power state ON or OFF.
C29_FailuresLeveled ==
    [][(/\ last'.op = "refresh"
        /\ \A i \in 1..Len(last'.log) :
               /\ last'.log[i].res.exc = "none"
               /\ Truthy(last'.log[i].res.value)) =>
           /\ last'.exc = "none"
           /\ lastCycle'[last'.c] = "ok"
           /\ last_update_success'[last'.c]
           /\ power_state'[last'.c] \in {ON, OFF}
           /\ DOMAIN data'[last'.c] = {last'.log[i].command : i \in 1..Len(last'.log)}
           /\ \A i \in 1..Len(last'.log) :
                  data'[last'.c][last'.log[i].command] = last'.log[i].res.value]_vars

\* A cycle that succeeded after MaxFailures failed ones in a row
C29_Witness ==
    /\ AfterCycle
    /\ lastCycle[last.c] = "ok"
    /\ failures = MaxFailures
    /\ power_state[last.c] \in {ON, OFF}
    /\ Len(last.log) > 1

\* C30: no poll cycle runs on a coordinator that has no observer attached.
C30_PollOnlyWhileObserved ==
    [][last'.op = "refresh" => NumListeners(last'.c) > 0]_vars

\* The part of a reply before its first "=" (the whole reply when it has
\* none), and the part after it
EchoedKey(msg) == split(msg, "=")[1]
HasEquals(msg) == \E i \in 1..Len(msg) : msg[i] = "="
AfterFirstEquals(msg) == SubSeq(msg, Len(EchoedKey(msg)) + 2, Len(msg))

\* C33: the value decoded from a reply that echoes the requested key is
\* everything after the first "=" of the reply, also when that holds "=".
C33_SplitOnFirstEquals ==
    AfterCommand =>
        LET e == last.log[1]
            msg == Received(e).msg
        IN
        (/\ Received(e).exc = "none"
         /\ HasEquals(msg)
         /\ lower(EchoedKey(msg)) = lower(Chars(e.command))) =>
            /\ e.res.exc = "none"
            /\ e.res.value = Str(AfterFirstEquals(msg))

\* C34: a non-empty reply is accepted iff the key it echoes is the requested
\* key in any letter case; the value of an accepted reply that holds no "="
\* is returned as it was received.
C34_EchoCaseInsensitiveOnKey ==
    AfterCommand =>
        LET e == last.log[1]
            msg == Received(e).msg
        IN
        (Received(e).exc = "none" /\ msg # <<>>) =>
            /\ e.res.exc = "none"
            /\ e.res.value # None <=>
                   (HasEquals(msg) /\ lower(EchoedKey(msg)) = lower(Chars(e.command)))
            /\ (e.res.value # None /\ ~HasEquals(AfterFirstEquals(msg))) =>
                   e.res.value = Str(AfterFirstEquals(msg))

\* A reply with the key in lower case was accepted with its value in upper
\* case
C34_Witness ==
    /\ AfterCommand
    /\ last.log[1].behaviour = "LowerKey"
    /\ EchoedKey(Received(last.log[1]).msg) # Chars(last.log[1].command)
    /\ last.log[1].res.value = "ON"

\* The keys of the exchanges of a log, in their order
Queried(log) == [i \in 1..Len(log) |-> log[i].command]

\* The subscribed keys other than Main.Power, in the order of their
\* subscription
IsSubscribedKey(k) == k # MainPower
SubscribedKeys(c) == SelectSeq(ListenerCommands(c), IsSubscribedKey)

\* seq is the beginning of other
IsPrefix(seq, other) ==
    Len(seq) <= Len(other) /\ SubSeq(other, 1, Len(seq)) = seq

\* C32: a subscription appends a key that was not subscribed and nothing
\* else, and a poll cycle that observes power On queries Main.Power once,
\* first, and then the subscribed keys other than Main.Power in the order of
\* their subscription, each once: all of them when the cycle succeeds, the
\* first of them when it is aborted.
C32_QueriesInSubscriptionOrder ==
    /\ [](AfterCycle /\ PowerObservedOn =>
            /\ IsPrefix(Queried(last.log), <<MainPower>> \o SubscribedKeys(last.c))
            /\ last.exc = "none" =>
                   Queried(last.log) = <<MainPower>> \o SubscribedKeys(last.c))
    /\ [][\/ listener_commands' = listener_commands
          \/ \E k \in Keys \ Range(listener_commands) :
                 listener_commands' = Append(listener_commands, k)]_vars

\* A cycle that succeeded with Main.Power subscribed between the two other
\* keys
C32_Witness ==
    /\ AfterCycle
    /\ PowerObservedOn
    /\ last.exc = "none"
    /\ ListenerCommands(last.c) = <<MainBass, MainPower, MainDimmer>>
    /\ Queried(last.log) = <<MainPower, MainBass, MainDimmer>>

\* C35: a coordinator that has a model recorded has its version, device_info
\* and sources recorded too (connect assigns sources last), and a call of
\* connect returns True exactly when it leaves the coordinator so.
C35_DescriptorConsistent ==
    \A c \in coordinators :
        /\ Truthy(model[c]) => Resolved(c)
        /\ (last.op \in {"connect", "async_setup_entry"} /\ last.c = c) =>
               (returned = "True" <=> Resolved(c))

\* C36: a snapshot that is not empty holds the key Main.Power with a
\* non-empty value.
C36_SnapshotHoldsPower ==
    \A c \in coordinators :
        TruthyDict(data[c]) =>
            /\ MainPower \in DOMAIN data[c]
            /\ Truthy(data[c][MainPower])

\* C37: with bounds minDb < maxDb, calc_volume of a decibel value is at
\* least calc_volume of every smaller decibel value, below minDb too.
C37_CalcVolumeMonotone ==
    (result.op = "calc_volume" /\ options.min_volume < options.max_volume) =>
        \A decibel \in Decibels :
            decibel <= result.decibel =>
                LessEq(calc_volume(options, decibel).value, result.value)

\* C31: in the notification of a poll cycle that left a power state other
\* than ON, the handler of the media player does not read the mute, volume
\* and source attributes of the coordinator (the read of coordinator.muted is
\* an AttributeError): the handler, when it is the first one called, takes the
\* power state and, for OFF, writes it.
C31_PowerGatesMediaAttributes ==
    [][(/\ last'.op = "refresh"
        /\ MediaPlayer \in Range(observers)
        /\ power_state'[last'.c] # ON
        /\ (last_update_success[last'.c] \/ last_update_success'[last'.c])) =>
           /\ async_update_listeners(observers, EntityState, data'[last'.c],
                  power_state'[last'.c], last_update_success'[last'.c]).exc
                  # "AttributeError"
           /\ Head(observers) = MediaPlayer =>
                  /\ attr_state' = power_state'[last'.c]
                  /\ power_state'[last'.c] = OFF => written'[MediaPlayer] = OFF]_vars

\* A cycle that left the power state OFF, after which the media player wrote
\* the state off
C31_Witness ==
    /\ AfterCycle
    /\ MediaPlayer \in Range(observers)
    /\ power_state[last.c] = OFF
    /\ attr_state = OFF
    /\ written[MediaPlayer] = OFF

Stored(entity, value) ==
    IF entity = MainDimmer
    THEN (IF lower(Chars(value)) = Chars("on") THEN "True" ELSE "False")
    ELSE float(Chars(value))

\* C39: after a set command of an entity that made its exchange, the entity
\* holds the value the device echoed when that is a valid value for it;
\* when there is no echo or the echo is not valid, it holds the value it
\* held before and is marked unavailable; and no exception leaves the command.
C39_StoredValueIsEcho ==
    [][(last'.op \in EntityCommands /\ last'.log # <<>>) =>
          LET e == last'.log[1]
              entity == e.command
          IN  /\ last'.exc = "none"
              /\ IF e.res.exc = "none" /\ Valid(entity, (entity :> e.res.value))
                 THEN attr_value'[entity] = Stored(entity, e.res.value)
                 ELSE /\ attr_value'[entity] = attr_value[entity]
                      /\ ~attr_available'[entity]]_vars

====
